---- MODULE Spec2Model ----
(***************************************************************************)
(* Tax comparison core of the tax-saving / regime-suggestion application:  *)
(* calculateHraExemption, calculateOldRegimeTax, calculateNewRegimeTax and *)
(* calculateTaxes of utils/taxCalculator.                                  *)
(*                                                                         *)
(* Arithmetic.  The source computes in JavaScript numbers.  For integer    *)
(* rupee inputs every intermediate value is a rational with a small        *)
(* denominator, and the model carries it exactly:                          *)
(*   - incomes, deductions and exemptions in tenths of a rupee (0.4, 0.5   *)
(*     and 0.1 times an integer basic salary is a whole number of tenths); *)
(*   - slab taxes as a record [r, f]: r whole rupees and f two-hundredths  *)
(*     of a rupee, 0 <= f < 200 (5% of a tenth is one two-hundredth);      *)
(*   - the final tax as the integer Math.round returns.                    *)
(* All products are split so that they stay below 2^31.                    *)
(***************************************************************************)
EXTENDS Integers, FiniteSets, Sequences

VARIABLES inputs, locals, results, pc, adv, doc, parser, page

vars == <<inputs, locals, results, pc, adv, doc, parser, page>>

(***************************************************************************)
(* Bounds of the checked input sets.                                       *)
(***************************************************************************)
\* Every threshold t of the schedules is sampled at t - MaxDelta .. t + MaxDelta.
MaxDelta == 1
\* Raw deductions are sampled MaxOver below zero and MaxOver above each cap.
MaxOver == 1
\* Longest enumerated string; longer strings are samples.
MaxStr == 3
\* Longest enumerated response text, in tokens.
MaxTokens == 4
\* Files dropped on the page and forms submitted.
MaxDrops == 2
MaxSubmits == 2

(***************************************************************************)
(* Constants (FY 2023-24 / AY 2024-25).                                    *)
(***************************************************************************)
STANDARD_DEDUCTION == 50000

OLD_EXEMPTION_BELOW60 == 250000
OLD_EXEMPTION_60TO80 == 300000
OLD_EXEMPTION_ABOVE80 == 500000

OLD_SLAB2_LIMIT == 500000
OLD_SLAB3_LIMIT == 1000000

NEW_SLAB1_LIMIT == 300000
NEW_SLAB2_LIMIT == 600000
NEW_SLAB3_LIMIT == 900000
NEW_SLAB4_LIMIT == 1200000
NEW_SLAB5_LIMIT == 1500000

REBATE_87A_OLD_THRESHOLD == 500000
REBATE_87A_NEW_THRESHOLD == 700000

CAP_80C == 150000
CAP_80D_BELOW60 == 25000
CAP_80D_SENIOR == 50000
CAP_80TTA == 10000
CAP_80TTB == 50000
CAP_HOME_LOAN_INTEREST == 200000
CAP_NPS_80CCD_1B == 50000

\* CESS_RATE = 0.04, in percent.
CESS_RATE == 4

(***************************************************************************)
(* Exact arithmetic helpers.                                               *)
(***************************************************************************)
Min(a, b) == IF a < b THEN a ELSE b
Max(a, b) == IF a > b THEN a ELSE b
Min3(a, b, c) == Min(a, Min(b, c))
Abs(a) == IF a < 0 THEN -a ELSE a

\* n rupees in tenths of a rupee.
Tenths(n) == 10 * n

\* `x || 0` on a number: 0 stays 0, any other number stays itself.
\* A numeric field that holds no number: undefined, null or NaN.  Each is
\* written as a number that no amount of a profile takes, so that arithmetic
\* on a value the code failed to replace stays defined and shows in the result.
Undefined == 123456701
Null == 123456702
NaN == 123456703
AbsentValues == {Undefined, Null, NaN}

\* Mutant: the field is used as it is.
OrZero_identity(x) == x

\* x || 0: 0 for every falsy x (0, undefined, null, NaN), x otherwise.
OrZero(x) == IF x = 0 \/ x \in AbsentValues THEN 0 ELSE x

\* A tax amount of r rupees and f two-hundredths, normalised to 0 <= f < 200.
Amt(r, f) == [r |-> r + (f \div 200), f |-> f % 200]
AmtZero == [r |-> 0, f |-> 0]
AmtAdd(a, b) == Amt(a.r + b.r, a.f + b.f)
AmtGT(a, b) == a.r > b.r \/ (a.r = b.r /\ a.f > b.f)
AmtOfTenths(x) == Amt(x \div 10, (x % 10) * 20)

\* `amount * rate` of the slab functions: pct percent (5, 10, 15, 20 or 30) of
\* an amount >= 0 given in tenths.  amount/10 * pct/100 = amount * (pct/5) / 200.
RateOn(amount, pct) ==
    LET w == pct \div 5
    IN  Amt((amount \div 200) * w, (amount % 200) * w)

(***************************************************************************)
(* Surcharge and cess.                                                     *)
(***************************************************************************)
\* Mutant: the band tests are strict, so an income at a band edge pays the next rate.
getSurchargeRate_strictEdges(totalIncome, regime) ==
    IF totalIncome < Tenths(5000000) THEN 0
    ELSE IF totalIncome < Tenths(10000000) THEN 10
    ELSE IF totalIncome < Tenths(20000000) THEN 15
    ELSE IF totalIncome < Tenths(50000000) THEN 25
    ELSE IF regime = "new" THEN 25 ELSE 37

\* Mutant: the 10% and 15% bands are swapped.
getSurchargeRate_bandsSwapped(totalIncome, regime) ==
    IF totalIncome <= Tenths(5000000) THEN 0
    ELSE IF totalIncome <= Tenths(10000000) THEN 15
    ELSE IF totalIncome <= Tenths(20000000) THEN 10
    ELSE IF totalIncome <= Tenths(50000000) THEN 25
    ELSE IF regime = "new" THEN 25 ELSE 37

\* The surcharge rate in percent; totalIncome in tenths.
getSurchargeRate(totalIncome, regime) ==
    IF totalIncome <= Tenths(5000000) THEN 0
    ELSE IF totalIncome <= Tenths(10000000) THEN 10
    ELSE IF totalIncome <= Tenths(20000000) THEN 15
    ELSE IF totalIncome <= Tenths(50000000) THEN 25
    ELSE IF regime = "new" THEN 25 ELSE 37

\* surcharge = tax * rate; cess = (tax + surcharge) * CESS_RATE;
\* finalTax = Math.round(tax + surcharge + cess).
\* tax + surcharge + cess = tax * (100 + rate) * (100 + CESS_RATE) / 10000
\*                        = (200 r + f) * G / 250000, G = (100 + rate) * 13,
\* and Math.round of a non-negative x is floor(x + 1/2).
\* Mutant: the cess is left out of the final amount.
finalTax_noCess(tax, surchargeRate) ==
    LET G == 100 + surchargeRate
        q == tax.r \div 100
        s == tax.r % 100
    IN  q * G + (((200 * s + tax.f) * G + 10000) \div 20000)

\* Mutant: an amount ending in exactly .5 is rounded down.
finalTax_halfDown(tax, surchargeRate) ==
    LET G == ((100 + surchargeRate) * (100 + CESS_RATE)) \div 8
        q == tax.r \div 1250
        s == tax.r % 1250
    IN  q * G + (((200 * s + tax.f) * G + 124999) \div 250000)

finalTax(tax, surchargeRate) ==
    LET G == ((100 + surchargeRate) * (100 + CESS_RATE)) \div 8
        q == tax.r \div 1250
        s == tax.r % 1250
    IN  q * G + (((200 * s + tax.f) * G + 125000) \div 250000)

(***************************************************************************)
(* HRA exemption (in tenths).                                              *)
(***************************************************************************)
\* Mutant: the metro and non-metro rates are exchanged.
calculateHraExemption_ratesSwapped(basicSalary, hraReceived, rentPaid, livesInMetro) ==
    LET actualHra == Tenths(Max(0, OrZero(hraReceived)))
        pctOfSalary == (IF livesInMetro THEN 4 ELSE 5) * Max(0, OrZero(basicSalary))
        excessRent == Max(0, Tenths(OrZero(rentPaid)) - Max(0, OrZero(basicSalary)))
        exemption == Min3(actualHra, pctOfSalary, excessRent)
    IN  Max(0, exemption)

calculateHraExemption(basicSalary, hraReceived, rentPaid, livesInMetro) ==
    LET actualHra == Tenths(Max(0, OrZero(hraReceived)))
        pctOfSalary == (IF livesInMetro THEN 5 ELSE 4) * Max(0, OrZero(basicSalary))
        excessRent == Max(0, Tenths(OrZero(rentPaid)) - Max(0, OrZero(basicSalary)))
        exemption == Min3(actualHra, pctOfSalary, excessRent)
    IN  Max(0, exemption)

(***************************************************************************)
(* Old regime.                                                             *)
(***************************************************************************)
\* Mutant: the two senior exemptions are exchanged.
getOldRegimeBasicExemption_swapped(age) ==
    IF age = "above80" THEN OLD_EXEMPTION_60TO80
    ELSE IF age = "60to80" THEN OLD_EXEMPTION_ABOVE80
    ELSE OLD_EXEMPTION_BELOW60

getOldRegimeBasicExemption(age) ==
    IF age = "above80" THEN OLD_EXEMPTION_ABOVE80
    ELSE IF age = "60to80" THEN OLD_EXEMPTION_60TO80
    ELSE OLD_EXEMPTION_BELOW60

\* The three slabs of calculateOldRegimeSlabTax, after its early return;
\* taxableIncome in tenths.
oldRegimeSlabs(taxableIncome, age) ==
    LET basicExemption == Tenths(getOldRegimeBasicExemption(age))
        tax1 == IF taxableIncome > basicExemption
                THEN RateOn(Max(0, Min(taxableIncome, Tenths(OLD_SLAB2_LIMIT)) - basicExemption), 5)
                ELSE AmtZero
        tax2 == IF taxableIncome > Tenths(OLD_SLAB2_LIMIT)
                THEN RateOn(Max(0, Min(taxableIncome, Tenths(OLD_SLAB3_LIMIT)) - Tenths(OLD_SLAB2_LIMIT)), 20)
                ELSE AmtZero
        tax3 == IF taxableIncome > Tenths(OLD_SLAB3_LIMIT)
                THEN RateOn(Max(0, taxableIncome - Tenths(OLD_SLAB3_LIMIT)), 30)
                ELSE AmtZero
    IN  AmtAdd(AmtAdd(tax1, tax2), tax3)

\* Mutant: the 30% slab starts at the 20% slab's lower limit.
calculateOldRegimeSlabTax_slab3Limit(taxableIncome, age) ==
    IF taxableIncome <= Tenths(REBATE_87A_OLD_THRESHOLD) THEN AmtZero
    ELSE
    LET basicExemption == Tenths(getOldRegimeBasicExemption(age))
        tax1 == IF taxableIncome > basicExemption
                THEN RateOn(Max(0, Min(taxableIncome, Tenths(OLD_SLAB2_LIMIT)) - basicExemption), 5)
                ELSE AmtZero
        tax2 == IF taxableIncome > Tenths(OLD_SLAB2_LIMIT)
                THEN RateOn(Max(0, Min(taxableIncome, Tenths(OLD_SLAB3_LIMIT)) - Tenths(OLD_SLAB2_LIMIT)), 20)
                ELSE AmtZero
        tax3 == IF taxableIncome > Tenths(OLD_SLAB3_LIMIT)
                THEN RateOn(Max(0, taxableIncome - Tenths(OLD_SLAB2_LIMIT)), 30)
                ELSE AmtZero
    IN  AmtAdd(AmtAdd(tax1, tax2), tax3)

\* Mutant: the rebate test is strict, so an income of exactly the threshold is taxed.
calculateOldRegimeSlabTax_strictRebate(taxableIncome, age) ==
    IF taxableIncome < Tenths(REBATE_87A_OLD_THRESHOLD) THEN AmtZero
    ELSE oldRegimeSlabs(taxableIncome, age)

\* taxableIncome in tenths.
calculateOldRegimeSlabTax(taxableIncome, age) ==
    IF taxableIncome <= Tenths(REBATE_87A_OLD_THRESHOLD) THEN AmtZero
    ELSE oldRegimeSlabs(taxableIncome, age)

\* Mutant: the floor at 0 is missing.
capDeduction_noFloor(d, cap) == Min(OrZero(d), cap)

\* Mutant: an amount over the cap is dropped instead of capped.
capDeduction_overCapDropped(d, cap) == IF OrZero(d) > cap THEN 0 ELSE Max(0, OrZero(d))

\* Math.min(Math.max(0, d || 0), cap), in rupees.
capDeduction(d, cap) == Min(Max(0, OrZero(d)), cap)

capped80c(i) == capDeduction(i.deduction80c, CAP_80C)
capped80d(i) ==
    IF i.age = "below60"
    THEN capDeduction(i.deduction80d, CAP_80D_BELOW60)
    ELSE capDeduction(i.deduction80d, CAP_80D_SENIOR)
cappedSavingsInterest(i) ==
    IF i.age = "below60"
    THEN capDeduction(i.deduction80tta, CAP_80TTA)
    ELSE capDeduction(i.deduction80tta, CAP_80TTB)
cappedHomeLoan(i) == capDeduction(i.homeLoanInterest, CAP_HOME_LOAN_INTEREST)
cappedNps(i) == capDeduction(i.npsContribution, CAP_NPS_80CCD_1B)

\* In tenths.
totalDeductions(i) ==
    Tenths(STANDARD_DEDUCTION)
    + calculateHraExemption(i.basicSalary, i.hraReceived, i.rentPaid, i.livesInMetro)
    + Tenths(capped80c(i))
    + Tenths(capped80d(i))
    + Tenths(cappedSavingsInterest(i))
    + Tenths(cappedHomeLoan(i))
    + Tenths(cappedNps(i))

\* Mutant: the floor at 0 is missing.
oldTaxableIncome_noFloor(i) == Tenths(OrZero(i.grossSalary)) - totalDeductions(i)

\* In tenths.
oldTaxableIncome(i) == Max(0, Tenths(OrZero(i.grossSalary)) - totalDeductions(i))

calculateOldRegimeTax(i) ==
    LET taxableIncome == oldTaxableIncome(i)
        incomeTax == calculateOldRegimeSlabTax(taxableIncome, i.age)
        surchargeRate == getSurchargeRate(taxableIncome, "old")
    IN  finalTax(incomeTax, surchargeRate)

(***************************************************************************)
(* New regime.                                                             *)
(***************************************************************************)
\* Mutant: the 15% slab is capped at the 10% slab's upper limit, so it never applies.
calculateNewRegimeSlabTax_slab3Cap(taxableIncome) ==
    IF taxableIncome <= Tenths(REBATE_87A_NEW_THRESHOLD) THEN AmtZero
    ELSE
    LET tax1 == IF taxableIncome > Tenths(NEW_SLAB1_LIMIT)
                THEN RateOn(Max(0, Min(taxableIncome, Tenths(NEW_SLAB2_LIMIT)) - Tenths(NEW_SLAB1_LIMIT)), 5)
                ELSE AmtZero
        tax2 == IF taxableIncome > Tenths(NEW_SLAB2_LIMIT)
                THEN RateOn(Max(0, Min(taxableIncome, Tenths(NEW_SLAB3_LIMIT)) - Tenths(NEW_SLAB2_LIMIT)), 10)
                ELSE AmtZero
        tax3 == IF taxableIncome > Tenths(NEW_SLAB3_LIMIT)
                THEN RateOn(Max(0, Min(taxableIncome, Tenths(NEW_SLAB3_LIMIT)) - Tenths(NEW_SLAB3_LIMIT)), 15)
                ELSE AmtZero
        tax4 == IF taxableIncome > Tenths(NEW_SLAB4_LIMIT)
                THEN RateOn(Max(0, Min(taxableIncome, Tenths(NEW_SLAB5_LIMIT)) - Tenths(NEW_SLAB4_LIMIT)), 20)
                ELSE AmtZero
        tax5 == IF taxableIncome > Tenths(NEW_SLAB5_LIMIT)
                THEN RateOn(Max(0, taxableIncome - Tenths(NEW_SLAB5_LIMIT)), 30)
                ELSE AmtZero
    IN  AmtAdd(AmtAdd(AmtAdd(AmtAdd(tax1, tax2), tax3), tax4), tax5)

\* taxableIncome in tenths.
calculateNewRegimeSlabTax(taxableIncome) ==
    IF taxableIncome <= Tenths(REBATE_87A_NEW_THRESHOLD) THEN AmtZero
    ELSE
    LET tax1 == IF taxableIncome > Tenths(NEW_SLAB1_LIMIT)
                THEN RateOn(Max(0, Min(taxableIncome, Tenths(NEW_SLAB2_LIMIT)) - Tenths(NEW_SLAB1_LIMIT)), 5)
                ELSE AmtZero
        tax2 == IF taxableIncome > Tenths(NEW_SLAB2_LIMIT)
                THEN RateOn(Max(0, Min(taxableIncome, Tenths(NEW_SLAB3_LIMIT)) - Tenths(NEW_SLAB2_LIMIT)), 10)
                ELSE AmtZero
        tax3 == IF taxableIncome > Tenths(NEW_SLAB3_LIMIT)
                THEN RateOn(Max(0, Min(taxableIncome, Tenths(NEW_SLAB4_LIMIT)) - Tenths(NEW_SLAB3_LIMIT)), 15)
                ELSE AmtZero
        tax4 == IF taxableIncome > Tenths(NEW_SLAB4_LIMIT)
                THEN RateOn(Max(0, Min(taxableIncome, Tenths(NEW_SLAB5_LIMIT)) - Tenths(NEW_SLAB4_LIMIT)), 20)
                ELSE AmtZero
        tax5 == IF taxableIncome > Tenths(NEW_SLAB5_LIMIT)
                THEN RateOn(Max(0, taxableIncome - Tenths(NEW_SLAB5_LIMIT)), 30)
                ELSE AmtZero
    IN  AmtAdd(AmtAdd(AmtAdd(AmtAdd(tax1, tax2), tax3), tax4), tax5)

\* Mutant: no marginal relief above the threshold.
applyNewRegimeMarginalRelief_noRelief(taxableIncome, computedTax) ==
    IF taxableIncome <= Tenths(REBATE_87A_NEW_THRESHOLD) THEN AmtZero
    ELSE computedTax

\* Mutant: the comparison is inverted, so the larger amount is returned.
applyNewRegimeMarginalRelief_inverted(taxableIncome, computedTax) ==
    IF taxableIncome <= Tenths(REBATE_87A_NEW_THRESHOLD) THEN AmtZero
    ELSE
    LET excess == AmtOfTenths(taxableIncome - Tenths(REBATE_87A_NEW_THRESHOLD))
    IN  IF AmtGT(computedTax, excess) THEN computedTax ELSE excess

applyNewRegimeMarginalRelief(taxableIncome, computedTax) ==
    IF taxableIncome <= Tenths(REBATE_87A_NEW_THRESHOLD) THEN AmtZero
    ELSE
    LET excess == AmtOfTenths(taxableIncome - Tenths(REBATE_87A_NEW_THRESHOLD))
    IN  IF AmtGT(computedTax, excess) THEN excess ELSE computedTax

\* Mutant: the old regime's deductions are subtracted in the new regime too.
newTaxableIncome_withDeductions(i) == Max(0, Tenths(OrZero(i.grossSalary)) - totalDeductions(i))

\* In tenths.
newTaxableIncome(i) == Max(0, Tenths(OrZero(i.grossSalary)) - Tenths(STANDARD_DEDUCTION))

calculateNewRegimeTax(i) ==
    LET taxableIncome == newTaxableIncome(i)
        slabTax == calculateNewRegimeSlabTax(taxableIncome)
        taxAfterRelief == applyNewRegimeMarginalRelief(taxableIncome, slabTax)
        surchargeRate == getSurchargeRate(taxableIncome, "new")
    IN  finalTax(taxAfterRelief, surchargeRate)

(***************************************************************************)
(* Main.                                                                   *)
(***************************************************************************)
\* Mutant: the comparison is not strict, so a tie recommends 'old'.
calculateTaxes_nonStrict(i) ==
    LET oldRegimeTax == calculateOldRegimeTax(i)
        newRegimeTax == calculateNewRegimeTax(i)
    IN  [oldRegimeTax |-> oldRegimeTax,
         newRegimeTax |-> newRegimeTax,
         savings |-> Abs(oldRegimeTax - newRegimeTax),
         recommendedRegime |-> IF oldRegimeTax <= newRegimeTax THEN "old" ELSE "new"]

\* Mutant: the difference is returned with its sign.
calculateTaxes_noAbs(i) ==
    LET oldRegimeTax == calculateOldRegimeTax(i)
        newRegimeTax == calculateNewRegimeTax(i)
    IN  [oldRegimeTax |-> oldRegimeTax,
         newRegimeTax |-> newRegimeTax,
         savings |-> oldRegimeTax - newRegimeTax,
         recommendedRegime |-> IF oldRegimeTax < newRegimeTax THEN "old" ELSE "new"]

calculateTaxes(i) ==
    LET oldRegimeTax == calculateOldRegimeTax(i)
        newRegimeTax == calculateNewRegimeTax(i)
    IN  [oldRegimeTax |-> oldRegimeTax,
         newRegimeTax |-> newRegimeTax,
         savings |-> Abs(oldRegimeTax - newRegimeTax),
         recommendedRegime |-> IF oldRegimeTax < newRegimeTax THEN "old" ELSE "new"]

\* The values calculateOldRegimeTax and calculateNewRegimeTax hold in their
\* local constants while they run on i.
localsOf(i) ==
    [hraExemption |-> calculateHraExemption(i.basicSalary, i.hraReceived, i.rentPaid, i.livesInMetro),
     totalDeductions |-> totalDeductions(i),
     oldTaxableIncome |-> oldTaxableIncome(i),
     oldIncomeTax |-> calculateOldRegimeSlabTax(oldTaxableIncome(i), i.age),
     oldSurchargeRate |-> getSurchargeRate(oldTaxableIncome(i), "old"),
     newSurchargeRate |-> getSurchargeRate(newTaxableIncome(i), "new"),
     newTaxableIncome |-> newTaxableIncome(i),
     newSlabTax |-> calculateNewRegimeSlabTax(newTaxableIncome(i)),
     newTaxAfterRelief |->
         applyNewRegimeMarginalRelief(newTaxableIncome(i), calculateNewRegimeSlabTax(newTaxableIncome(i)))]

(***************************************************************************)
(* The checked profiles.                                                   *)
(***************************************************************************)
AgeBrackets == {"below60", "60to80", "above80"}
\* What a caller of the untyped JSON endpoint can send as age.
AgeValues == AgeBrackets \cup {"unknown"}

Near(t) == {t + d : d \in -MaxDelta .. MaxDelta}

\* Taxable incomes at which a rule of either schedule changes, the incomes of
\* the two end-to-end scenarios (550,000 and 950,000), the income 727,777
\* up to which the new regime's marginal relief is the smaller amount, and the
\* income 5,000,625 at which tax + surcharge + cess ends in exactly .5.
TaxableThresholds ==
    {0, OLD_EXEMPTION_BELOW60, OLD_EXEMPTION_60TO80, OLD_EXEMPTION_ABOVE80,
     NEW_SLAB1_LIMIT, NEW_SLAB2_LIMIT, NEW_SLAB3_LIMIT, NEW_SLAB4_LIMIT, NEW_SLAB5_LIMIT,
     OLD_SLAB3_LIMIT, REBATE_87A_NEW_THRESHOLD, 550000, 727777, 950000,
     5000000, 5000625, 10000000, 20000000, 50000000}

TaxableSamples == UNION {Near(t) : t \in TaxableThresholds}

GrossSamples ==
    {t + STANDARD_DEDUCTION : t \in TaxableSamples} \cup {-1000000, -1, 0, 1, 100000000}

ZeroProfile ==
    [grossSalary |-> 0, basicSalary |-> 0, hraReceived |-> 0, rentPaid |-> 0,
     livesInMetro |-> FALSE, deduction80c |-> 0, deduction80d |-> 0,
     deduction80tta |-> 0, homeLoanInterest |-> 0, npsContribution |-> 0,
     age |-> "below60"]

\* Salary only: every deduction and HRA field 0.
SalaryProfiles ==
    {[ZeroProfile EXCEPT !.grossSalary = g, !.age = a] :
        g \in GrossSamples, a \in AgeValues}

\* Below the floor, at the floor, inside the range, at the cap and above it.
DeductionSamples(cap) == {-MaxOver, 0, cap \div 2, cap, cap + MaxOver}

DeductionProfiles ==
    {[ZeroProfile EXCEPT !.grossSalary = g, !.age = a,
                         !.deduction80c = c, !.deduction80d = d, !.deduction80tta = t,
                         !.homeLoanInterest = h, !.npsContribution = n] :
        g \in {1200000}, a \in AgeValues,
        c \in DeductionSamples(CAP_80C) \cup {500000},
        d \in DeductionSamples(CAP_80D_BELOW60) \cup DeductionSamples(CAP_80D_SENIOR),
        t \in DeductionSamples(CAP_80TTA) \cup DeductionSamples(CAP_80TTB),
        h \in DeductionSamples(CAP_HOME_LOAN_INTEREST),
        n \in DeductionSamples(CAP_NPS_80CCD_1B)}

HraProfiles ==
    {[ZeroProfile EXCEPT !.grossSalary = 1000000, !.basicSalary = b, !.hraReceived = h,
                         !.rentPaid = r, !.livesInMetro = m] :
        b \in Near(0) \cup Near(500000) \cup {7},
        h \in Near(0) \cup Near(200000) \cup Near(250000) \cup {300000},
        r \in Near(0) \cup Near(50000) \cup Near(250000) \cup Near(300000) \cup {-50000},
        m \in BOOLEAN}

\* The nine numeric fields of TaxCalculationInputs.
NumericFields ==
    {"grossSalary", "basicSalary", "hraReceived", "rentPaid", "deduction80c",
     "deduction80d", "deduction80tta", "homeLoanInterest", "npsContribution"}

\* Profiles in which every numeric field changes the result, so that a field
\* read as anything but 0 shows.
FullProfiles ==
    {[grossSalary |-> g, basicSalary |-> 500000, hraReceived |-> 200000,
      rentPaid |-> 150000, livesInMetro |-> m, deduction80c |-> 100000,
      deduction80d |-> 20000, deduction80tta |-> 5000, homeLoanInterest |-> 100000,
      npsContribution |-> 30000, age |-> a] :
        g \in {1200000, 6000000}, m \in BOOLEAN, a \in AgeValues}

\* A full profile, or one with one or two of its numeric fields absent.
AbsentProfiles ==
    FullProfiles \cup
    {[b EXCEPT ![f] = v, ![g] = w] :
        b \in FullProfiles, f \in NumericFields, g \in NumericFields,
        v \in AbsentValues, w \in AbsentValues}

\* Salary-only and full profiles whose gross salary puts the taxable income
\* of one of the regimes at a sample.
MonotoneBases ==
    {[ZeroProfile EXCEPT !.age = a] : a \in AgeValues}
    \cup {b \in FullProfiles : b.grossSalary = 1200000 /\ b.livesInMetro}
MonotoneGross(b) ==
    {t + off : t \in TaxableSamples, off \in {STANDARD_DEDUCTION, totalDeductions(b) \div 10}}
    \cup {-1, 0, 100000000}
MonotoneProfiles ==
    {[b EXCEPT !.grossSalary = g] : b \in MonotoneBases, g \in UNION {MonotoneGross(c) : c \in MonotoneBases}}

(***************************************************************************)
(* State machine: one call of calculateTaxes on a profile.                 *)
(***************************************************************************)
(***************************************************************************)
(* documentParser: sanitizeNumber, sanitizeString, parseGeminiResponse.    *)
(* A string is a sequence of characters; the rupee sign is "INR".          *)
(***************************************************************************)
Digits == <<"0", "1", "2", "3", "4", "5", "6", "7", "8", "9">>
IsDigit(c) == \E k \in 1 .. 10 : Digits[k] = c
DigitValue(c) == (CHOOSE k \in 1 .. 10 : Digits[k] = c) - 1

\* sanitizeNumber's result: a number or null.
NumNull == [isNull |-> TRUE, n |-> 0]
Num(n) == [isNull |-> FALSE, n |-> n]

\* The characters of s that are not in class.
RECURSIVE RemoveAll(_, _)
RemoveAll(s, class) ==
    IF s = <<>> THEN <<>>
    ELSE IF Head(s) \in class THEN RemoveAll(Tail(s), class)
    ELSE <<Head(s)>> \o RemoveAll(Tail(s), class)

\* The longest prefix of s made of digits.
RECURSIVE DigitPrefix(_)
DigitPrefix(s) ==
    IF s = <<>> \/ ~IsDigit(Head(s)) THEN <<>>
    ELSE <<Head(s)>> \o DigitPrefix(Tail(s))

RECURSIVE DigitsValue(_)
DigitsValue(d) ==
    IF d = <<>> THEN 0 ELSE 10 * DigitsValue(SubSeq(d, 1, Len(d) - 1)) + DigitValue(d[Len(d)])

\* A number: NaN, or a sign, an integer part and the digits of the fraction.
Float(isNaN, negative, int, frac) ==
    [isNaN |-> isNaN, negative |-> negative, int |-> int, frac |-> frac]
FloatZero == Float(FALSE, FALSE, 0, <<>>)

\* parseFloat on a string without whitespace, exponent, or the words Infinity
\* and NaN: an optional sign, digits, an optional point and digits; the rest
\* is ignored.  The fraction is kept as its digits.
parseFloat(s) ==
    LET signed == s # <<>> /\ Head(s) \in {"-", "+"}
        body == IF signed THEN Tail(s) ELSE s
        int == DigitPrefix(body)
        rest == SubSeq(body, Len(int) + 1, Len(body))
        frac == IF rest # <<>> /\ Head(rest) = "." THEN DigitPrefix(Tail(rest)) ELSE <<>>
    IN  Float(int = <<>> /\ frac = <<>>, signed /\ Head(s) = "-", DigitsValue(int), frac)

\* Math.round of a parsed number: to the nearest integer, a half towards
\* +infinity.
MathRound(x) ==
    LET half == x.frac # <<>> /\ DigitValue(x.frac[1]) >= 5
        overHalf == /\ half
                    /\ \/ DigitValue(x.frac[1]) > 5
                       \/ \E k \in 2 .. Len(x.frac) : x.frac[k] # "0"
    IN  IF x.negative THEN -(x.int + (IF overHalf THEN 1 ELSE 0))
        ELSE x.int + (IF half THEN 1 ELSE 0)

\* A value of type unknown, as far as sanitizeNumber and sanitizeString tell
\* values apart.  num is read when type = "number", str when type = "string".
Value(type, num, str) == [type |-> type, num |-> num, str |-> str]
VUndefined == Value("undefined", FloatZero, <<>>)
VNull == Value("null", FloatZero, <<>>)
VNumber(x) == Value("number", x, <<>>)
VString(s) == Value("string", FloatZero, s)
VOther(type) == Value(type, FloatZero, <<>>)

\* The class [₹,Rs.\s] with the flags gi: the point is in it.
SanitizeClass == {"INR", ",", "R", "r", "S", "s", ".", " "}

sanitizeNumber(value) ==
    IF value.type \in {"null", "undefined"} \/ (value.type = "string" /\ value.str = <<>>)
    THEN NumNull
    ELSE IF value.type = "number" /\ ~value.num.isNaN
    THEN Num(MathRound(value.num))
    ELSE IF value.type = "string"
    THEN LET parsed == parseFloat(RemoveAll(value.str, SanitizeClass))
         IN  IF ~parsed.isNaN THEN Num(MathRound(parsed)) ELSE NumNull
    ELSE NumNull

\* sanitizeString's result: a string or null.
StrNull == [isNull |-> TRUE, s |-> <<>>]
Str(s) == [isNull |-> FALSE, s |-> s]

\* String.prototype.trim, on characters or on the tokens of a response text.
RECURSIVE TrimStart(_)
TrimStart(s) == IF s # <<>> /\ Head(s) = " " THEN TrimStart(Tail(s)) ELSE s
RECURSIVE TrimEnd(_)
TrimEnd(s) ==
    IF s # <<>> /\ s[Len(s)] = " " THEN TrimEnd(SubSeq(s, 1, Len(s) - 1)) ELSE s
trim(s) == TrimEnd(TrimStart(s))

sanitizeString(value) ==
    IF value.type \in {"null", "undefined"} THEN StrNull
    ELSE IF value.type = "string" /\ trim(value.str) # <<>> THEN Str(trim(value.str))
    ELSE StrNull

\* The 14 fields of ParsedForm16Data.
NumberFields ==
    {"grossSalary", "basicSalary", "hraReceived", "rentPaid", "deduction80c", "deduction80d",
     "npsContribution", "homeLoanInterest", "deduction80tta", "totalTaxDeducted"}
StringFields == {"employerName", "employeeName", "pan", "financialYear"}
DataFields == NumberFields \cup StringFields

defaultData == [f \in DataFields |-> IF f \in NumberFields THEN NumNull ELSE StrNull]

\* A member of the parsed object: absent (v undefined), a value v, or an
\* object with a 'value' key holding v.
Member(nested, v) == [nested |-> nested, v |-> v]
NoMember == Member(FALSE, VUndefined)

\* What JSON.parse returns: null, a number, a string, a boolean, an array or
\* an object; members is read when type = "object".
Json(type, members) == [type |-> type, members |-> members]
NoMembers == [f \in DataFields |-> NoMember]

\* A response text is a sequence of tokens: "FENCE_JSON" and "FENCE" (three
\* backticks with and without the tag json), whitespace " ", one JSON document
\* "J", and other text "junk".
\* JSON.parse accepts whitespace around one document and nothing else.
jsonParse(tokens, document) ==
    IF RemoveAll(tokens, {" "}) = <<"J">>
    THEN [ok |-> TRUE, parsed |-> document]
    ELSE [ok |-> FALSE, parsed |-> Json("null", NoMembers)]

\* Lines 201-211: trim, drop an opening fence, drop a closing fence, trim.
cleanResponse(responseText) ==
    LET t == trim(responseText)
        opened == IF t # <<>> /\ Head(t) \in {"FENCE_JSON", "FENCE"} THEN Tail(t) ELSE t
        closed == IF opened # <<>> /\ opened[Len(opened)] = "FENCE"
                  THEN SubSeq(opened, 1, Len(opened) - 1)
                  ELSE opened
    IN  trim(closed)

\* Mutant: a nested member is returned as the object it is.
extractValue_flatOnly(field) ==
    IF ~field.nested /\ field.v.type \in {"null", "undefined"} THEN VNull
    ELSE IF field.nested THEN VOther("object")
    ELSE field.v

extractValue(field) ==
    IF ~field.nested /\ field.v.type \in {"null", "undefined"} THEN VNull
    ELSE IF field.nested THEN field.v
    ELSE field.v

\* parsed.<f>: a property of null throws, a property of a number, string,
\* boolean or array by one of these names is undefined.
parseGeminiResponse(responseText, document) ==
    LET r == jsonParse(cleanResponse(responseText), document)
    IN  IF ~r.ok \/ r.parsed.type = "null" THEN defaultData
        ELSE [f \in DataFields |->
                LET field == IF r.parsed.type = "object" THEN r.parsed.members[f] ELSE NoMember
                IN  IF f \in NumberFields
                    THEN sanitizeNumber(extractValue(field))
                    ELSE sanitizeString(extractValue(field))]

\* Neither sanitizeNumber nor parseGeminiResponse has been called.
ParserIdle ==
    [pc |-> "idle", value |-> VUndefined, number |-> NumNull,
     responseText |-> <<>>, document |-> Json("null", NoMembers), data |-> defaultData]

PageIdle ==
    [loading |-> FALSE, isUploading |-> FALSE, submit |-> "idle", upload |-> "idle",
     uploadStatus |-> "null", hasResults |-> FALSE,
     filled |-> {}, autoFilledFields |-> {}, recorded |-> {}, extractions |-> 0, timers |-> <<>>,
     drops |-> 0, lastDrop |-> "none", sent |-> 0, submits |-> 0]

NoAdvice == "No AI advice available (Gemini API key missing or all models failed)."

\* NextResponse.json(body, {status}).
jsonResponse(status, body) == [kind |-> "json", status |-> status, body |-> body]
NoResponse == [kind |-> "none", status |-> 0, body |-> [success |-> FALSE]]

\* One generateContent call as the service saw it: the model called and what
\* came of it.  "rejected": generateContent threw; "textThrew": it resolved and
\* response.text() threw; "answered": it resolved and text() returned.
Call(name, outcome) == [name |-> name, outcome |-> outcome]

\* POST /api/advice has not been called.
AdvIdle ==
    [pc |-> "idle", body |-> [kind |-> "missing", inputs |-> ZeroProfile], apiKey |-> FALSE,
     next |-> 1, calls |-> 0, log |-> <<>>, advice |-> NoAdvice, usedModelName |-> "null",
     response |-> NoResponse]

\* POST /api/parse-document has not been called.
DocIdle ==
    [pc |-> "idle", apiKey |-> FALSE, formOk |-> FALSE,
     file |-> [present |-> FALSE, name |-> "", type |-> "", size |-> 0],
     next |-> 1, calls |-> 0, log |-> <<>>, usedModel |-> FALSE, modelName |-> "",
     caught |-> [thrown |-> FALSE, isError |-> FALSE, message |-> {}],
     response |-> NoResponse]

NoLocals == localsOf(ZeroProfile)
NoResults ==
    [oldRegimeTax |-> 0, newRegimeTax |-> 0, savings |-> 0, recommendedRegime |-> "none"]

InitWith(profiles) ==
    /\ inputs \in profiles
    /\ locals = NoLocals
    /\ results = NoResults
    /\ pc = "ready"
    /\ adv = AdvIdle
    /\ doc = DocIdle
    /\ parser = ParserIdle
    /\ page = PageIdle

Init == InitWith(SalaryProfiles)
InitDeductions == InitWith(DeductionProfiles)
InitHra == InitWith(HraProfiles)
InitAll == InitWith(SalaryProfiles \cup DeductionProfiles \cup HraProfiles)
InitAbsent == InitWith(AbsentProfiles)
InitMonotone == InitWith(MonotoneProfiles)

\* calculateTaxes(inputs) runs to its return statement; nothing in it or in
\* the functions it calls throws.
CalculateTaxes ==
    /\ pc = "ready"
    /\ locals' = localsOf(inputs)
    /\ results' = calculateTaxes(inputs)
    /\ pc' = "returned"
    /\ UNCHANGED <<inputs, adv, doc, parser, page>>

Next == CalculateTaxes

Spec == Init /\ [][Next]_vars
SpecDeductions == InitDeductions /\ [][Next]_vars
SpecHra == InitHra /\ [][Next]_vars
SpecAll == InitAll /\ [][Next]_vars
SpecAbsent == InitAbsent /\ [][Next]_vars
SpecMonotone == InitMonotone /\ [][Next]_vars

(***************************************************************************)
(* State machine: POST /api/advice.  One action per stretch of the handler *)
(* between two awaits; the outcome of each await is the action's input.    *)
(***************************************************************************)
preferredModels ==
    <<"gemini-3-pro-preview", "gemini-2.5-pro", "gemini-2.5-flash", "gemini-2.5-flash-lite",
      "gemini-2.0-flash", "gemini-2.0-flash-exp", "gemini-1.5-flash", "gemini-1.5-pro">>

\* What response.response.text() may return.
AdviceTexts == {"", "### Recommendation Rationale", "Old Regime Tax: 0. Recommended Regime: OLD"}

\* Mutant: the request succeeds only if a model answered.
adviceResponse_requiresModel(i, r, advice, usedModelName) ==
    jsonResponse(IF usedModelName = "null" THEN 500 ELSE 200,
                 [success |-> usedModelName # "null",
                  model |-> IF usedModelName = "null" THEN "none" ELSE usedModelName,
                  inputs |-> i, results |-> r, advice |-> advice])

\* Mutant: the response names the first configured model, whichever answered.
adviceResponse_firstModel(i, r, advice, usedModelName) ==
    jsonResponse(200,
                 [success |-> TRUE,
                  model |-> IF usedModelName = "null" THEN "none" ELSE preferredModels[1],
                  inputs |-> i, results |-> r, advice |-> advice])

\* The handler's final return.
adviceResponse(i, r, advice, usedModelName) ==
    jsonResponse(200,
                 [success |-> TRUE,
                  model |-> IF usedModelName = "null" THEN "none" ELSE usedModelName,
                  inputs |-> i, results |-> r, advice |-> advice])

\* The object {}: every field undefined.
EmptyObject ==
    [grossSalary |-> Undefined, basicSalary |-> Undefined, hraReceived |-> Undefined,
     rentPaid |-> Undefined, livesInMetro |-> FALSE, deduction80c |-> Undefined,
     deduction80d |-> Undefined, deduction80tta |-> Undefined,
     homeLoanInterest |-> Undefined, npsContribution |-> Undefined, age |-> "undefined"]

\* The request bodies: JSON whose inputs member is an object, JSON without an
\* inputs member, JSON whose inputs member is null, JSON whose inputs member
\* is a string or a number, and text that is no JSON.  The inputs field is
\* read only when kind = "object".
AdviceProfiles ==
    FullProfiles \cup {ZeroProfile, [ZeroProfile EXCEPT !.age = "unknown"], EmptyObject}
AdviceBodies ==
    {[kind |-> "object", inputs |-> p] : p \in AdviceProfiles}
    \cup {[kind |-> k, inputs |-> ZeroProfile] : k \in {"missing", "null", "notObject", "malformed"}}

\* !inputs and typeof inputs of a body that parsed.
falsy(body) == body.kind \in {"missing", "null"}
typeofInputs(body) ==
    IF body.kind \in {"object", "null"} THEN "object"
    ELSE IF body.kind = "missing" THEN "undefined" ELSE "string"

\* Mutant: only the typeof test, which null passes.
inputsInvalid_typeofOnly(body) == typeofInputs(body) # "object"

\* !inputs || typeof inputs !== "object"
inputsInvalid(body) == falsy(body) \/ typeofInputs(body) # "object"

InitAdvice ==
    /\ inputs = ZeroProfile
    /\ locals = NoLocals
    /\ results = NoResults
    /\ pc = "idle"
    /\ \E b \in AdviceBodies, k \in BOOLEAN :
          adv = [AdvIdle EXCEPT !.pc = "entry", !.body = b, !.apiKey = k]
    /\ doc = DocIdle
    /\ parser = ParserIdle
    /\ page = PageIdle

\* From the entry to the first generateContent call or to a return:
\* req.json(), the inputs check, calculateTaxes and the prompt.
AdviceRequest ==
    /\ adv.pc = "entry"
    /\ \/ /\ adv.body.kind = "malformed"
          /\ adv' = [adv EXCEPT !.pc = "responded",
                        !.response = jsonResponse(500, [success |-> FALSE, error |-> "error.message"])]
          /\ UNCHANGED <<inputs, locals, results, pc>>
       \/ /\ adv.body.kind # "malformed" /\ inputsInvalid(adv.body)
          /\ adv' = [adv EXCEPT !.pc = "responded",
                        !.response = jsonResponse(400, [success |-> FALSE, error |-> "Missing or invalid 'inputs' payload."])]
          /\ UNCHANGED <<inputs, locals, results, pc>>
       \/ /\ adv.body.kind # "malformed" /\ ~inputsInvalid(adv.body)
          /\ inputs' = adv.body.inputs
          /\ locals' = localsOf(adv.body.inputs)
          /\ results' = calculateTaxes(adv.body.inputs)
          /\ pc' = "returned"
          /\ adv' = IF adv.apiKey
                    THEN [adv EXCEPT !.pc = "calling", !.next = 1, !.advice = NoAdvice,
                                     !.usedModelName = "null"]
                    ELSE [adv EXCEPT !.pc = "responded", !.advice = NoAdvice,
                                     !.usedModelName = "null",
                                     !.response = adviceResponse(adv.body.inputs,
                                                                 calculateTaxes(adv.body.inputs),
                                                                 NoAdvice, "null")]
    /\ UNCHANGED <<doc, parser, page>>

\* generateContent of the model in turn resolves and text() returns: the loop
\* breaks and the handler returns.
AdviceModelReturns ==
    /\ adv.pc = "calling"
    /\ \E text \in AdviceTexts :
          adv' = [adv EXCEPT !.pc = "responded", !.calls = @ + 1,
                             !.log = Append(@, Call(preferredModels[adv.next], "answered")),
                             !.advice = text,
                             !.usedModelName = preferredModels[adv.next],
                             !.response = adviceResponse(inputs, results, text,
                                                         preferredModels[adv.next])]
    /\ UNCHANGED <<inputs, locals, results, pc, doc, parser, page>>

\* The inner catch: on to the next model, and after the last one the handler
\* returns.
adviceCatch(a, i, r, outcome) ==
    IF a.next < Len(preferredModels)
    THEN [a EXCEPT !.calls = @ + 1, !.next = @ + 1,
                   !.log = Append(@, Call(preferredModels[a.next], outcome))]
    ELSE [a EXCEPT !.pc = "responded", !.calls = @ + 1,
                   !.log = Append(@, Call(preferredModels[a.next], outcome)),
                   !.response = adviceResponse(i, r, a.advice, a.usedModelName)]

\* generateContent of the model in turn throws.
AdviceModelThrows ==
    /\ adv.pc = "calling"
    /\ adv' = adviceCatch(adv, inputs, results, "rejected")
    /\ UNCHANGED <<inputs, locals, results, pc, doc, parser, page>>

\* generateContent resolves and response.text() throws, inside the same try.
AdviceTextThrows ==
    /\ adv.pc = "calling"
    /\ adv' = adviceCatch(adv, inputs, results, "textThrew")
    /\ UNCHANGED <<inputs, locals, results, pc, doc, parser, page>>

NextAdvice == AdviceRequest \/ AdviceModelReturns \/ AdviceModelThrows \/ AdviceTextThrows

SpecAdvice == InitAdvice /\ [][NextAdvice]_vars

(***************************************************************************)
(* State machine: POST /api/parse-document.                                *)
(***************************************************************************)
ALLOWED_FILE_TYPES == {"application/pdf", "image/jpeg", "image/jpg", "image/png", "image/webp"}
\* 10 * 1024 * 1024
MAX_FILE_SIZE == 10485760

visionModelNames == preferredModels
allowedTypes == {"application/pdf", "image/jpeg", "image/jpg", "image/png", "image/webp"}
\* 10 * 1024 * 1024
maxSize == 10485760

validateFile(file) ==
    IF file.type \notin ALLOWED_FILE_TYPES THEN [valid |-> FALSE, error |-> "Invalid file type"]
    ELSE IF file.size > MAX_FILE_SIZE THEN [valid |-> FALSE, error |-> "File too large"]
    ELSE [valid |-> TRUE, error |-> ""]

\* The substrings the outer catch looks for in an error's message; a message
\* is the set of those it includes.
Markers == {"API_KEY", "quota", "RESOURCE_EXHAUSTED"}
includes(message, marker) == marker \in message

\* What an await or a call may throw: an Error with a message, or another value.
Thrown ==
    {[thrown |-> TRUE, isError |-> TRUE, message |-> m] : m \in SUBSET Markers}
    \cup {[thrown |-> TRUE, isError |-> FALSE, message |-> {}]}

\* "Failed to parse document" includes none of the markers.
errorMessage(error) == IF error.isError THEN error.message ELSE {}

\* Mutant: an error the handler does not recognise is thrown on.
catchResponse_rethrowUnknown(error) ==
    IF includes(errorMessage(error), "API_KEY")
    THEN jsonResponse(401, [success |-> FALSE, error |-> "Invalid Gemini API key"])
    ELSE IF includes(errorMessage(error), "quota") \/ includes(errorMessage(error), "RESOURCE_EXHAUSTED")
    THEN jsonResponse(429, [success |-> FALSE, error |-> "API quota exceeded. Please try again later."])
    ELSE [kind |-> "thrown", status |-> 0, body |-> [success |-> FALSE]]

\* The outer catch block.
catchResponse(error) ==
    IF includes(errorMessage(error), "API_KEY")
    THEN jsonResponse(401, [success |-> FALSE, error |-> "Invalid Gemini API key"])
    ELSE IF includes(errorMessage(error), "quota") \/ includes(errorMessage(error), "RESOURCE_EXHAUSTED")
    THEN jsonResponse(429, [success |-> FALSE, error |-> "API quota exceeded. Please try again later."])
    ELSE jsonResponse(500, [success |-> FALSE, error |-> "error.message"])

\* The three key fields of the parsed data; found is the set of those not null.
KeyFields == {"grossSalary", "basicSalary", "deduction80c"}
\* Math.round((foundFields / keyFields.length) * 100)
confidence(found) == (200 * Cardinality(found) + Cardinality(KeyFields)) \div (2 * Cardinality(KeyFields))

parseResponse(file, modelName, found) ==
    jsonResponse(200,
                 [success |-> TRUE, model |-> modelName, fileName |-> file.name,
                  fileType |-> file.type, data |-> found, confidence |-> confidence(found),
                  message |-> IF confidence(found) >= 66
                              THEN "Form 16 parsed successfully"
                              ELSE "Partial extraction - please verify fields"])

FileTypes == ALLOWED_FILE_TYPES \cup {"text/plain", "undefined"}
FileSizes == Near(MAX_FILE_SIZE) \cup {0, 1}
Files ==
    {[present |-> TRUE, name |-> "form16", type |-> t, size |-> s] : t \in FileTypes, s \in FileSizes}
    \cup {DocIdle.file}

InitParse ==
    /\ inputs = ZeroProfile
    /\ locals = NoLocals
    /\ results = NoResults
    /\ pc = "idle"
    /\ adv = AdvIdle
    /\ \E k \in BOOLEAN, ok \in BOOLEAN, f \in Files :
          doc = [DocIdle EXCEPT !.pc = "entry", !.apiKey = k, !.formOk = ok, !.file = f]
    /\ parser = ParserIdle
    /\ page = PageIdle

\* From the entry to file.arrayBuffer() or to a return: the key check,
\* req.formData() and the three file checks.
ParseRequest ==
    /\ doc.pc = "entry"
    /\ \/ /\ ~doc.apiKey
          /\ doc' = [doc EXCEPT !.pc = "responded",
                        !.response = jsonResponse(500, [success |-> FALSE, error |-> "GEMINI_API_KEY not configured"])]
       \/ /\ doc.apiKey /\ ~doc.formOk
          /\ \E e \in Thrown :
                doc' = [doc EXCEPT !.pc = "responded", !.caught = e, !.response = catchResponse(e)]
       \/ /\ doc.apiKey /\ doc.formOk /\ ~doc.file.present
          /\ doc' = [doc EXCEPT !.pc = "responded",
                        !.response = jsonResponse(400, [success |-> FALSE, error |-> "No file uploaded"])]
       \/ /\ doc.apiKey /\ doc.formOk /\ doc.file.present /\ doc.file.type \notin allowedTypes
          /\ doc' = [doc EXCEPT !.pc = "responded",
                        !.response = jsonResponse(400, [success |-> FALSE, error |-> "Invalid file type"])]
       \/ /\ doc.apiKey /\ doc.formOk /\ doc.file.present /\ doc.file.type \in allowedTypes
          /\ doc.file.size > maxSize
          /\ doc' = [doc EXCEPT !.pc = "responded",
                        !.response = jsonResponse(400, [success |-> FALSE, error |-> "File too large"])]
       \/ /\ doc.apiKey /\ doc.formOk /\ doc.file.present /\ doc.file.type \in allowedTypes
          /\ doc.file.size <= maxSize
          /\ doc' = [doc EXCEPT !.pc = "reading"]
    /\ UNCHANGED <<inputs, locals, results, pc, adv, parser, page>>

\* file.arrayBuffer() resolves: the loop over the models starts.
ParseBufferRead ==
    /\ doc.pc = "reading"
    /\ doc' = [doc EXCEPT !.pc = "calling", !.next = 1, !.usedModel = FALSE, !.modelName = ""]
    /\ UNCHANGED <<inputs, locals, results, pc, adv, parser, page>>

\* file.arrayBuffer() rejects.
ParseBufferThrows ==
    /\ doc.pc = "reading"
    /\ \E e \in Thrown :
          doc' = [doc EXCEPT !.pc = "responded", !.caught = e, !.response = catchResponse(e)]
    /\ UNCHANGED <<inputs, locals, results, pc, adv, parser, page>>

\* generateContent of the model in turn throws: the inner catch goes on to the
\* next model, and after the last one the handler returns a failure.
ParseModelThrows ==
    /\ doc.pc = "calling"
    /\ doc' = IF doc.next < Len(visionModelNames)
              THEN [doc EXCEPT !.calls = @ + 1, !.next = @ + 1,
                               !.log = Append(@, Call(visionModelNames[doc.next], "rejected"))]
              ELSE [doc EXCEPT !.pc = "responded", !.calls = @ + 1,
                               !.log = Append(@, Call(visionModelNames[doc.next], "rejected")),
                               !.response = jsonResponse(500,
                                   [success |-> FALSE,
                                    error |-> "All available Gemini models failed to process the document."])]
    /\ UNCHANGED <<inputs, locals, results, pc, adv, parser, page>>

\* generateContent resolves, text() returns and parseGeminiResponse finds some
\* of the key fields.
ParseModelReturns ==
    /\ doc.pc = "calling"
    /\ \E found \in SUBSET KeyFields :
          doc' = [doc EXCEPT !.pc = "responded", !.calls = @ + 1, !.usedModel = TRUE,
                             !.log = Append(@, Call(visionModelNames[doc.next], "answered")),
                             !.modelName = visionModelNames[doc.next],
                             !.response = parseResponse(doc.file, visionModelNames[doc.next], found)]
    /\ UNCHANGED <<inputs, locals, results, pc, adv, parser, page>>

\* generateContent resolves and text() throws: outside the inner try.
ParseTextThrows ==
    /\ doc.pc = "calling"
    /\ \E e \in Thrown :
          doc' = [doc EXCEPT !.pc = "responded", !.calls = @ + 1, !.usedModel = TRUE,
                             !.log = Append(@, Call(visionModelNames[doc.next], "textThrew")),
                             !.modelName = visionModelNames[doc.next],
                             !.caught = e, !.response = catchResponse(e)]
    /\ UNCHANGED <<inputs, locals, results, pc, adv, parser, page>>

NextParse ==
    \/ ParseRequest
    \/ ParseBufferRead
    \/ ParseBufferThrows
    \/ ParseModelThrows
    \/ ParseModelReturns
    \/ ParseTextThrows

SpecParse == InitParse /\ [][NextParse]_vars

\* Both handlers, each serving one request.
InitRoutes == InitAdvice \/ InitParse
NextRoutes == NextAdvice \/ NextParse
SpecRoutes == InitRoutes /\ [][NextRoutes]_vars

(***************************************************************************)
(* State machine: one call of sanitizeNumber on a value.                   *)
(***************************************************************************)
\* The calculator and the two handlers are not running.
CoreIdle ==
    /\ inputs = ZeroProfile
    /\ locals = NoLocals
    /\ results = NoResults
    /\ pc = "idle"
    /\ adv = AdvIdle
    /\ doc = DocIdle
    /\ page = PageIdle

Chars == {"0", "1", "5", ",", ".", "R", "s", " ", "INR", "-", "x"}
StringsUpTo(n) == UNION {[1 .. k -> Chars] : k \in 0 .. n}

\* '1,234.56', 'Rs. 50000.40', '₹ 1,50,000', '12.5 lakh' and '-7.5'.
SampleStrings ==
    {<<"1", ",", "2", "3", "4", ".", "5", "6">>,
     <<"R", "s", ".", " ", "5", "0", "0", "0", "0", ".", "4", "0">>,
     <<"INR", " ", "1", ",", "5", "0", ",", "0", "0", "0">>,
     <<"1", "2", ".", "5", " ", "l", "a", "k", "h">>,
     <<"-", "7", ".", "5">>}

SampleNumbers ==
    {Float(TRUE, FALSE, 0, <<>>), FloatZero, Float(FALSE, FALSE, 1234, <<"5", "6">>),
     Float(FALSE, FALSE, 2, <<"5">>), Float(FALSE, TRUE, 2, <<"5">>),
     Float(FALSE, TRUE, 2, <<"5", "1">>), Float(FALSE, FALSE, 150000, <<>>)}

SanitizeValues ==
    {VUndefined, VNull, VOther("boolean"), VOther("object")}
    \cup {VNumber(x) : x \in SampleNumbers}
    \cup {VString(str) : str \in StringsUpTo(MaxStr) \cup SampleStrings}

InitSanitize ==
    /\ CoreIdle
    /\ \E v \in SanitizeValues : parser = [ParserIdle EXCEPT !.pc = "ready", !.value = v]

SanitizeNumber ==
    /\ parser.pc = "ready"
    /\ parser' = [parser EXCEPT !.pc = "done", !.number = sanitizeNumber(parser.value)]
    /\ UNCHANGED <<inputs, locals, results, pc, adv, doc, page>>

NextSanitize == SanitizeNumber

SpecSanitize == InitSanitize /\ [][NextSanitize]_vars

(***************************************************************************)
(* State machine: one call of parseGeminiResponse on a response text.      *)
(***************************************************************************)
Tokens == {"FENCE_JSON", "FENCE", " ", "J", "junk"}
TextsUpTo(n) == UNION {[1 .. k -> Tokens] : k \in 0 .. n}

\* The document alone, fenced with and without the language tag, and fenced
\* with whitespace.
FencedTexts ==
    {<<"J">>, <<"FENCE_JSON", "J", "FENCE">>, <<"FENCE", "J", "FENCE">>,
     <<" ", "FENCE_JSON", " ", "J", " ", "FENCE", " ">>}

MemberValues ==
    {VUndefined, VNull, VOther("boolean"), VOther("array"), VOther("object"),
     VNumber(Float(FALSE, FALSE, 1234, <<"5", "6">>)), VNumber(FloatZero),
     VString(<<>>), VString(<<" ">>), VString(<<"1", ",", "5", "0", "0">>),
     VString(<<" ", "x", " ">>)}
Members == {Member(n, v) : n \in BOOLEAN, v \in MemberValues}

Objects ==
    {Json("object", [NoMembers EXCEPT ![nf] = a, ![sf] = b]) :
        nf \in {"grossSalary", "totalTaxDeducted"}, sf \in {"pan", "employerName"},
        a \in Members, b \in Members}
NonObjects == {Json(t, NoMembers) : t \in {"null", "number", "string", "boolean", "array"}}

InitGemini ==
    /\ CoreIdle
    /\ \E t \in TextsUpTo(MaxTokens) \cup FencedTexts, j \in Objects \cup NonObjects :
          /\ (t \in FencedTexts \/ j \in NonObjects \/ j = Json("object", NoMembers))
          /\ parser = [ParserIdle EXCEPT !.pc = "called", !.responseText = t, !.document = j]

ParseGeminiResponse ==
    /\ parser.pc = "called"
    /\ parser' = [parser EXCEPT !.pc = "parsed",
                     !.data = parseGeminiResponse(parser.responseText, parser.document)]
    /\ UNCHANGED <<inputs, locals, results, pc, adv, doc, page>>

NextGemini == ParseGeminiResponse

SpecGemini == InitGemini /\ [][NextGemini]_vars

(***************************************************************************)
(* State machine: the page.  loading and isUploading are the busy flags,   *)
(* timers the pending setTimeout callbacks of handleDataExtracted, oldest  *)
(* first, each named by the number of the extraction that started it;     *)
(* filled the form fields an extraction has written.  The texts of the     *)
(* form fields are not modelled.                                           *)
(***************************************************************************)
InitPage ==
    /\ inputs = ZeroProfile
    /\ locals = NoLocals
    /\ results = NoResults
    /\ pc = "idle"
    /\ adv = AdvIdle
    /\ doc = DocIdle
    /\ parser = ParserIdle
    /\ page = PageIdle

\* The sets of fields an extraction may have found.
FoundSets == SUBSET {"grossSalary", "deduction80c"}

\* onDrop up to the fetch: the dropzone is disabled while isUploading.
DropFile ==
    /\ ~page.isUploading
    /\ page.drops < MaxDrops
    /\ \E file \in Files :
          page' =
             IF ~file.present
             THEN [page EXCEPT !.drops = @ + 1, !.lastDrop = "noFile"]
             ELSE IF file.type \notin ALLOWED_FILE_TYPES
             THEN [page EXCEPT !.drops = @ + 1, !.lastDrop = "badType", !.uploadStatus = "error"]
             ELSE IF file.size > MAX_FILE_SIZE
             THEN [page EXCEPT !.drops = @ + 1, !.lastDrop = "tooLarge", !.uploadStatus = "error"]
             ELSE [page EXCEPT !.drops = @ + 1, !.lastDrop = "accepted", !.isUploading = TRUE,
                               !.uploadStatus = "info", !.upload = "fetching", !.sent = @ + 1]
    /\ UNCHANGED <<inputs, locals, results, pc, adv, doc, parser>>

\* handleDataExtracted: the found fields are filled and highlighted and a
\* timer is started.
handleDataExtracted(p, found) ==
    [p EXCEPT !.filled = @ \cup found, !.autoFilledFields = found, !.recorded = found,
              !.extractions = @ + 1, !.timers = Append(@, p.extractions + 1)]

\* Mutant: isUploading is cleared after the try block instead of in finally,
\* so not when the request throws.
uploadSettled_noFinally(p, outcome, found) ==
    IF outcome = "success"
    THEN [handleDataExtracted(p, found) EXCEPT !.uploadStatus = "success",
                                               !.isUploading = FALSE, !.upload = "idle"]
    ELSE IF outcome = "failure"
    THEN [p EXCEPT !.uploadStatus = "error", !.isUploading = FALSE, !.upload = "idle"]
    ELSE [p EXCEPT !.uploadStatus = "error", !.upload = "idle"]

\* onDrop after the fetch: the try, catch and finally blocks.  outcome is
\* "success" (result.success && result.data), "failure" or "throws".
uploadSettled(p, outcome, found) ==
    IF outcome = "success"
    THEN [handleDataExtracted(p, found) EXCEPT !.uploadStatus = "success",
                                               !.isUploading = FALSE, !.upload = "idle"]
    ELSE [p EXCEPT !.uploadStatus = "error", !.isUploading = FALSE, !.upload = "idle"]

UploadSettles ==
    /\ page.upload = "fetching"
    /\ \E outcome \in {"success", "failure", "throws"}, found \in FoundSets :
          page' = uploadSettled(page, outcome, found)
    /\ UNCHANGED <<inputs, locals, results, pc, adv, doc, parser>>

\* The oldest timer fires: setAutoFilledFields(new Set()).
TimerFires ==
    /\ page.timers # <<>>
    /\ page' = [page EXCEPT !.autoFilledFields = {}, !.timers = Tail(@)]
    /\ UNCHANGED <<inputs, locals, results, pc, adv, doc, parser>>

\* handleSubmit up to the fetch: the button is disabled while loading or
\* isUploading.
Submit ==
    /\ ~page.loading /\ ~page.isUploading
    /\ page.submits < MaxSubmits
    /\ page' = [page EXCEPT !.submits = @ + 1, !.loading = TRUE, !.hasResults = FALSE,
                            !.submit = "fetching"]
    /\ UNCHANGED <<inputs, locals, results, pc, adv, doc, parser>>

\* handleSubmit after the fetch: data.success, any other answer, or an
\* exception; finally setLoading(false).
SubmitSettles ==
    /\ page.submit = "fetching"
    /\ \E outcome \in {"success", "failure", "throws"} :
          page' = [page EXCEPT !.hasResults = (outcome = "success"), !.loading = FALSE,
                               !.submit = "idle"]
    /\ UNCHANGED <<inputs, locals, results, pc, adv, doc, parser>>

NextPage == DropFile \/ UploadSettles \/ TimerFires \/ Submit \/ SubmitSettles

\* A fetch that was started settles: it resolves or rejects.
SpecPage ==
    InitPage /\ [][NextPage]_vars /\ WF_vars(UploadSettles) /\ WF_vars(SubmitSettles)

(***************************************************************************)
(* Claims.                                                                 *)
(***************************************************************************)
Returned == pc = "returned"

\* The profile of end-to-end scenario 1.
Scenario1Profile == [ZeroProfile EXCEPT !.grossSalary = 1000000]

\* Every numeric field other than grossSalary is 0 and the profile is non-metro.
OnlySalary(i) == [i EXCEPT !.grossSalary = 0, !.age = "below60"] = ZeroProfile

\* C1: calculateTaxes on {grossSalary 1,000,000, below60, non-metro, every
\* deduction and HRA field 0} returns oldRegimeTax 106,600, newRegimeTax
\* 54,600, recommendedRegime 'new' and savings 52,000.
C1_Scenario1 ==
    (Returned /\ inputs = Scenario1Profile) =>
        results = [oldRegimeTax |-> 106600, newRegimeTax |-> 54600,
                   savings |-> 52000, recommendedRegime |-> "new"]

C1_Witness == Returned /\ inputs = Scenario1Profile /\ results.savings = 52000

\* C2 as stated: calculateTaxes on grossSalary 600,000 with every other
\* numeric field 0 (any age bracket, non-metro) yields oldRegimeTax = 0 and
\* newRegimeTax = 0.
C2_BothZero ==
    (Returned /\ inputs.grossSalary = 600000 /\ OnlySalary(inputs)
        /\ inputs.age \in AgeBrackets) =>
        (results.oldRegimeTax = 0 /\ results.newRegimeTax = 0)

\* C2 amended: on that profile newRegimeTax is 0 and oldRegimeTax is 23,400
\* for below60, 20,800 for 60to80 and 10,400 for above80 (the old-regime
\* taxable income 550,000 is above the 500,000 rebate threshold).
C2_OldNonZero ==
    (Returned /\ inputs.grossSalary = 600000 /\ OnlySalary(inputs)
        /\ inputs.age \in AgeBrackets) =>
        /\ results.newRegimeTax = 0
        /\ results.oldRegimeTax =
              (IF inputs.age = "below60" THEN 23400
               ELSE IF inputs.age = "60to80" THEN 20800 ELSE 10400)
        /\ results.recommendedRegime = "new"

C2_Witness ==
    /\ Returned /\ inputs.grossSalary = 600000 /\ OnlySalary(inputs)
    /\ inputs.age = "above80" /\ results.oldRegimeTax = 10400

\* C3 as stated: whenever oldRegimeTax equals newRegimeTax, calculateTaxes
\* returns recommendedRegime = 'old'.
C3_TieOld ==
    (Returned /\ results.oldRegimeTax = results.newRegimeTax) =>
        results.recommendedRegime = "old"

\* C3 amended: whenever oldRegimeTax equals newRegimeTax, calculateTaxes
\* returns recommendedRegime = 'new'; it picks 'old' exactly when old is
\* strictly smaller than new.
C3_TieNew ==
    Returned =>
        /\ (results.oldRegimeTax = results.newRegimeTax =>
                results.recommendedRegime = "new")
        /\ (results.recommendedRegime = "old" <=>
                results.oldRegimeTax < results.newRegimeTax)

\* A tie at a positive tax.
C3_Witness ==
    /\ Returned /\ results.oldRegimeTax = results.newRegimeTax
    /\ results.oldRegimeTax > 0 /\ results.recommendedRegime = "new"

\* C4: calculateTaxes on a profile whose age is none of 'below60', '60to80',
\* 'above80' fails and produces no TaxResults; on any other profile it
\* returns.
C4_InvalidAgeRejected ==
    /\ (inputs.age \notin AgeBrackets => (pc # "returned" /\ results = NoResults))
    /\ pc \in {"ready", "returned"}

\* Comparison of tax amounts.
AmtLE(a, b) == ~AmtGT(a, b)
AmtMin(a, b) == IF AmtGT(a, b) THEN b ELSE a

\* C5 as stated: for each of the three age brackets, old-regime taxable income
\* exactly 500,000 gives calculateOldRegimeTax = 0 and exactly 500,001 gives
\* calculateOldRegimeTax > 0.
C5_Cliff ==
    (Returned /\ inputs.age \in AgeBrackets) =>
        /\ (locals.oldTaxableIncome = Tenths(500000) => results.oldRegimeTax = 0)
        /\ (locals.oldTaxableIncome = Tenths(500001) => results.oldRegimeTax > 0)

\* C5 amended: for each of the three age brackets, old-regime taxable income
\* exactly 500,000 gives calculateOldRegimeTax = 0; exactly 500,001 gives
\* 13,000 for below60 and 10,400 for 60to80, and for above80 it gives 0,
\* because the slab tax there is the positive amount 0.20, which with cess
\* rounds to 0.
C5_CliffByAge ==
    (Returned /\ inputs.age \in AgeBrackets) =>
        /\ (locals.oldTaxableIncome = Tenths(500000) =>
                (results.oldRegimeTax = 0 /\ locals.oldIncomeTax = AmtZero))
        /\ (locals.oldTaxableIncome = Tenths(500001) =>
                /\ AmtGT(locals.oldIncomeTax, AmtZero)
                /\ results.oldRegimeTax =
                      (IF inputs.age = "below60" THEN 13000
                       ELSE IF inputs.age = "60to80" THEN 10400 ELSE 0))

C5_Witness ==
    /\ Returned /\ inputs.age = "above80"
    /\ locals.oldTaxableIncome = Tenths(500001)
    /\ locals.oldIncomeTax = Amt(0, 40) /\ results.oldRegimeTax = 0

\* C6: in the new regime the tax before surcharge is 0 when the taxable
\* income T is at most 700,000 and is min(slabTax(T), T - 700,000) when T
\* is above 700,000.
C6_RebateAndRelief ==
    Returned =>
        LET T == locals.newTaxableIncome
        IN  IF T <= Tenths(700000)
            THEN locals.newTaxAfterRelief = AmtZero
            ELSE locals.newTaxAfterRelief =
                    AmtMin(locals.newSlabTax, AmtOfTenths(T - Tenths(700000)))

\* The relief is the smaller amount: the slab tax exceeds T - 700,000.
C6_Witness ==
    /\ Returned /\ locals.newTaxableIncome > Tenths(700000)
    /\ AmtGT(locals.newSlabTax, locals.newTaxAfterRelief)
    /\ locals.newTaxAfterRelief = AmtOfTenths(locals.newTaxableIncome - Tenths(700000))

\* The new regime's tax before surcharge on a taxable income of t rupees.
NewTaxBeforeSurcharge(t) ==
    applyNewRegimeMarginalRelief(Tenths(t), calculateNewRegimeSlabTax(Tenths(t)))

\* C7: for integer taxable incomes 0 <= T1 < T2 the new regime's tax before
\* surcharge satisfies 0 <= tax(T2) - tax(T1) <= T2 - T1.  T1 is the taxable
\* income of the call made, T2 ranges over the sampled incomes.
C7_Smooth ==
    Returned =>
        \A t2 \in TaxableSamples :
            LET T1 == locals.newTaxableIncome
                tax1 == locals.newTaxAfterRelief
                tax2 == NewTaxBeforeSurcharge(t2)
            IN  (0 <= T1 /\ T1 < Tenths(t2)) =>
                    /\ AmtLE(tax1, tax2)
                    /\ AmtLE(tax2, AmtAdd(tax1, AmtOfTenths(Tenths(t2) - T1)))

\* T1 = 700,000 pays nothing and T2 = 700,001 pays exactly 1.
C7_Witness ==
    /\ Returned /\ locals.newTaxableIncome = Tenths(700000)
    /\ locals.newTaxAfterRelief = AmtZero
    /\ NewTaxBeforeSurcharge(700001) = Amt(1, 0)

\* [0, cap] clamp of the claims.
Clamp(d, cap) == IF d < 0 THEN 0 ELSE IF d > cap THEN cap ELSE d

DeductionFields ==
    {"deduction80c", "deduction80d", "deduction80tta", "homeLoanInterest", "npsContribution"}

\* The cap the claim gives for each deduction.
ClaimedCap(field, age) ==
    IF field = "deduction80c" THEN 150000
    ELSE IF field = "deduction80d" THEN (IF age = "below60" THEN 25000 ELSE 50000)
    ELSE IF field = "npsContribution" THEN 50000
    ELSE IF field = "homeLoanInterest" THEN 200000
    ELSE (IF age = "below60" THEN 10000 ELSE 50000)

ClampedSum(i) ==
    Clamp(i.deduction80c, ClaimedCap("deduction80c", i.age))
    + Clamp(i.deduction80d, ClaimedCap("deduction80d", i.age))
    + Clamp(i.deduction80tta, ClaimedCap("deduction80tta", i.age))
    + Clamp(i.homeLoanInterest, ClaimedCap("homeLoanInterest", i.age))
    + Clamp(i.npsContribution, ClaimedCap("npsContribution", i.age))

\* C8: calculateOldRegimeTax clamps each of the five raw deductions to
\* [0, cap] independently (caps 150,000; 25,000 below60 else 50,000; 50,000;
\* 200,000; 10,000 below60 else 50,000): the total deduction is the standard
\* deduction plus the HRA exemption plus the five clamped amounts, replacing a
\* raw deduction by its clamped value leaves oldRegimeTax unchanged, and an
\* 80C amount of 500,000 contributes exactly 150,000.
C8_Clamping ==
    Returned =>
        /\ locals.totalDeductions =
              Tenths(50000) + locals.hraExemption + Tenths(ClampedSum(inputs))
        /\ \A f \in DeductionFields :
              calculateOldRegimeTax(
                  [inputs EXCEPT ![f] = Clamp(inputs[f], ClaimedCap(f, inputs.age))])
              = results.oldRegimeTax
        /\ (inputs.deduction80c = 500000 =>
              locals.totalDeductions
                - totalDeductions([inputs EXCEPT !.deduction80c = 0]) = Tenths(150000))

\* 80C of 500,000 beside a negative, an in-range and an over-cap amount.
C8_Witness ==
    /\ Returned /\ inputs.deduction80c = 500000 /\ inputs.deduction80d < 0
    /\ inputs.npsContribution > 50000 /\ inputs.homeLoanInterest = 100000
    /\ inputs.age = "60to80" /\ inputs.deduction80tta = 50000
    /\ locals.totalDeductions = Tenths(50000 + 150000 + 0 + 50000 + 100000 + 50000)

\* C9: calculateHraExemption(basic, hra, rent, metro) =
\* min(max(0, hra), rate * max(0, basic), max(0, rent - 0.10 * max(0, basic)))
\* with rate 0.50 when metro and 0.40 otherwise; it is >= 0, at most
\* max(0, hra), and 0 for a negative rent.  Amounts in tenths of a rupee.
C9_HraFormula ==
    Returned =>
        LET b == IF inputs.basicSalary < 0 THEN 0 ELSE inputs.basicSalary
            h == IF inputs.hraReceived < 0 THEN 0 ELSE inputs.hraReceived
            e == 10 * inputs.rentPaid - b
            m1 == 10 * h
            m2 == IF inputs.livesInMetro THEN 5 * b ELSE 4 * b
            m3 == IF e < 0 THEN 0 ELSE e
        IN  /\ locals.hraExemption =
                  (IF m1 <= m2 /\ m1 <= m3 THEN m1 ELSE IF m2 <= m3 THEN m2 ELSE m3)
            /\ locals.hraExemption >= 0
            /\ locals.hraExemption <= 10 * h
            /\ (inputs.rentPaid < 0 => locals.hraExemption = 0)

\* The rent term decides, with a fractional amount: 50,000 - 0.1 * 499,999.
C9_Witness ==
    /\ Returned /\ inputs.basicSalary = 499999 /\ inputs.rentPaid = 50001
    /\ inputs.hraReceived = 200000 /\ inputs.livesInMetro
    /\ locals.hraExemption = 11

\* C10: for every profile with integer fields, negative and very large ones
\* included, the taxable income of each regime is >= 0, both taxes are
\* non-negative integers, and a regime's tax is 0 whenever the gross salary
\* does not exceed that regime's total deductions.
C10_NonNegative ==
    Returned =>
        /\ locals.oldTaxableIncome >= 0
        /\ locals.newTaxableIncome >= 0
        /\ results.oldRegimeTax \in Nat
        /\ results.newRegimeTax \in Nat
        /\ (Tenths(inputs.grossSalary) <= locals.totalDeductions =>
                (locals.oldTaxableIncome = 0 /\ results.oldRegimeTax = 0))
        /\ (inputs.grossSalary <= 50000 =>
                (locals.newTaxableIncome = 0 /\ results.newRegimeTax = 0))

C10_Witness ==
    /\ Returned /\ inputs.grossSalary < 0
    /\ locals.oldTaxableIncome = 0 /\ locals.newTaxableIncome = 0
    /\ results.oldRegimeTax = 0 /\ results.newRegimeTax = 0

\* C11: newRegimeTax depends only on grossSalary: the call made returns the
\* newRegimeTax of the profile with the same grossSalary and every other field
\* at its zero value (age below60, non-metro), and only the 50,000 standard
\* deduction is subtracted from the gross salary.
C11_NewRegimeIsolation ==
    Returned =>
        /\ results.newRegimeTax =
              calculateNewRegimeTax([ZeroProfile EXCEPT !.grossSalary = inputs.grossSalary])
        /\ locals.newTaxableIncome =
              (IF inputs.grossSalary <= 50000 THEN 0 ELSE Tenths(inputs.grossSalary - 50000))

\* A senior with every deduction above zero and a different old-regime income.
C11_Witness ==
    /\ Returned /\ inputs.age = "above80"
    /\ inputs.deduction80c > 0 /\ inputs.deduction80d > 0 /\ inputs.deduction80tta > 0
    /\ inputs.homeLoanInterest > 0 /\ inputs.npsContribution > 0
    /\ locals.newTaxableIncome = Tenths(1150000)
    /\ locals.oldTaxableIncome < locals.newTaxableIncome
    /\ results.newRegimeTax = 85800

\* The surcharge rate the claim gives, in percent, for a taxable income in tenths.
ClaimedSurchargeRate(T, regime) ==
    IF T <= Tenths(5000000) THEN 0
    ELSE IF T <= Tenths(10000000) THEN 10
    ELSE IF T <= Tenths(20000000) THEN 15
    ELSE IF T <= Tenths(50000000) THEN 25
    ELSE IF regime = "old" THEN 37 ELSE 25

\* F is tax * (100 + rate)/100 * 104/100 rounded half-up to a whole rupee:
\* F - 1/2 <= X < F + 1/2 for X = (200 r + f) * G / 250000, G = (100 + rate) * 13,
\* stated on the remainder of X above the multiple q * G of G.
IsHalfUp(F, tax, rate) ==
    LET G == (100 + rate) * 13
        q == tax.r \div 1250
        rem == (200 * (tax.r % 1250) + tax.f) * G
        k == F - q * G
    IN  /\ 0 <= k /\ k <= G
        /\ (2 * k - 1) * 125000 <= rem
        /\ rem < (2 * k + 1) * 125000

\* tax * (100 + rate)/100 * 104/100 has the fractional part exactly 1/2.
IsTie(tax, rate) ==
    ((200 * (tax.r % 1250) + tax.f) * ((100 + rate) * 13)) % 250000 = 125000

\* At a tie F is the upper neighbour: F - 1/2 = X.
TieRoundsUp(F, tax, rate) ==
    LET G == (100 + rate) * 13
        rem == (200 * (tax.r % 1250) + tax.f) * G
        k == F - (tax.r \div 1250) * G
    IN  IsTie(tax, rate) => (0 <= k /\ k <= G /\ (2 * k - 1) * 125000 = rem)

\* C13: the surcharge rate is a step function of the regime's taxable income:
\* 0% up to 5,000,000, 10% up to 10,000,000, 15% up to 20,000,000, 25% up to
\* 50,000,000, above that 25% (new) or 37% (old); the surcharge is that rate
\* times the tax after rebate/relief, with no marginal relief at a band edge
\* (below60, salary only: 1,365,000 at 5,000,000 and 1,501,500 at 5,000,001).
C13_Surcharge ==
    Returned =>
        /\ locals.oldSurchargeRate = ClaimedSurchargeRate(locals.oldTaxableIncome, "old")
        /\ locals.newSurchargeRate = ClaimedSurchargeRate(locals.newTaxableIncome, "new")
        /\ IsHalfUp(results.oldRegimeTax, locals.oldIncomeTax, locals.oldSurchargeRate)
        /\ IsHalfUp(results.newRegimeTax, locals.newTaxAfterRelief, locals.newSurchargeRate)
        /\ (inputs = [ZeroProfile EXCEPT !.grossSalary = 5050000] =>
                results.oldRegimeTax = 1365000)
        /\ (inputs = [ZeroProfile EXCEPT !.grossSalary = 5050001] =>
                results.oldRegimeTax = 1501500)

\* Above 50,000,000 the two regimes pay different rates.
C13_Witness ==
    /\ Returned /\ locals.oldTaxableIncome = Tenths(50000001)
    /\ locals.newTaxableIncome = Tenths(50000001)
    /\ locals.oldSurchargeRate = 37 /\ locals.newSurchargeRate = 25

\* C14: under both regimes the final tax is tax + surcharge + cess, with cess
\* 4% of (tax + surcharge), rounded half-up to a whole rupee in exact
\* arithmetic: an amount ending in exactly .5 rounds up.
C14_CessAndRounding ==
    Returned =>
        /\ IsHalfUp(results.oldRegimeTax, locals.oldIncomeTax,
                    ClaimedSurchargeRate(locals.oldTaxableIncome, "old"))
        /\ IsHalfUp(results.newRegimeTax, locals.newTaxAfterRelief,
                    ClaimedSurchargeRate(locals.newTaxableIncome, "new"))
        /\ TieRoundsUp(results.oldRegimeTax, locals.oldIncomeTax, locals.oldSurchargeRate)
        /\ TieRoundsUp(results.newRegimeTax, locals.newTaxAfterRelief, locals.newSurchargeRate)

\* 1,312,687.50 of tax, 10% surcharge and 4% cess are 1,501,714.50 exactly.
C14_Witness ==
    /\ Returned /\ inputs.age = "below60" /\ locals.oldTaxableIncome = Tenths(5000625)
    /\ locals.oldIncomeTax = Amt(1312687, 100)
    /\ IsTie(locals.oldIncomeTax, locals.oldSurchargeRate)
    /\ results.oldRegimeTax = 1501715

\* The old regime's slab tax as the claim states it, for a taxable income T in
\* tenths above 500,000 and the zero-rate threshold E in rupees.
ClaimedOldSlabTax(T, E) ==
    AmtAdd(AmtAdd(RateOn(Tenths(500000 - E), 5),
                  RateOn((IF T < Tenths(1000000) THEN T ELSE Tenths(1000000)) - Tenths(500000), 20)),
           RateOn(IF T > Tenths(1000000) THEN T - Tenths(1000000) ELSE 0, 30))

\* C15: for every taxable income T > 500,000 and each age bracket with
\* zero-rate threshold E (250,000 below60, 300,000 for 60to80, 500,000 above80)
\* calculateOldRegimeSlabTax returns
\* 5% * (500,000 - E) + 20% * (min(T, 1,000,000) - 500,000) + 30% * max(0, T - 1,000,000).
C15_OldSlabTax ==
    (Returned /\ inputs.age \in AgeBrackets /\ locals.oldTaxableIncome > Tenths(500000)) =>
        locals.oldIncomeTax =
            ClaimedOldSlabTax(locals.oldTaxableIncome,
                              IF inputs.age = "below60" THEN 250000
                              ELSE IF inputs.age = "60to80" THEN 300000 ELSE 500000)

\* All three bands are used: 10,000 + 100,000 + 30% of 150,000, after deductions.
C15_Witness ==
    /\ Returned /\ inputs.age = "60to80" /\ inputs.deduction80d > 0
    /\ locals.oldTaxableIncome = Tenths(1150000 - 25000)
    /\ locals.oldIncomeTax = Amt(10000 + 100000 + 37500, 0)

\* The new regime's slab tax as the claim states it: each rate on the slice of
\* T (in tenths) inside its band.
Slice(T, lo, hi) ==
    IF T <= Tenths(lo) THEN 0
    ELSE (IF T < Tenths(hi) THEN T ELSE Tenths(hi)) - Tenths(lo)

ClaimedNewSlabTax(T) ==
    AmtAdd(AmtAdd(AmtAdd(AmtAdd(RateOn(Slice(T, 300000, 600000), 5),
                                RateOn(Slice(T, 600000, 900000), 10)),
                         RateOn(Slice(T, 900000, 1200000), 15)),
                  RateOn(Slice(T, 1200000, 1500000), 20)),
           RateOn(IF T > Tenths(1500000) THEN T - Tenths(1500000) ELSE 0, 30))

\* C16: for every taxable income T > 700,000 calculateNewRegimeSlabTax returns
\* the marginal sum over the bands 0% to 300,000, 5% to 600,000, 10% to 900,000,
\* 15% to 1,200,000, 20% to 1,500,000 and 30% beyond, whatever the age.
C16_NewSlabTax ==
    (Returned /\ locals.newTaxableIncome > Tenths(700000)) =>
        locals.newSlabTax = ClaimedNewSlabTax(locals.newTaxableIncome)

\* Every band is used: 15,000 + 30,000 + 45,000 + 60,000 + 30% of 1.
C16_Witness ==
    /\ Returned /\ inputs.age = "above80" /\ locals.newTaxableIncome = Tenths(1500001)
    /\ locals.newSlabTax = Amt(150000, 60)

\* The tax of the regime that calculateTaxes recommends.
RecommendedTax(r) ==
    IF r.recommendedRegime = "old" THEN r.oldRegimeTax ELSE r.newRegimeTax

\* C17: calculateTaxes returns savings = |oldRegimeTax - newRegimeTax| >= 0;
\* when the two taxes differ the recommended regime is the one with the
\* strictly smaller final tax; the recommended regime's tax is always
\* min(oldRegimeTax, newRegimeTax).
C17_Comparator ==
    Returned =>
        /\ results.savings >= 0
        /\ results.savings \in {results.oldRegimeTax - results.newRegimeTax,
                                 results.newRegimeTax - results.oldRegimeTax}
        /\ results.recommendedRegime \in {"old", "new"}
        /\ (results.oldRegimeTax < results.newRegimeTax => results.recommendedRegime = "old")
        /\ (results.newRegimeTax < results.oldRegimeTax => results.recommendedRegime = "new")
        /\ RecommendedTax(results) <= results.oldRegimeTax
        /\ RecommendedTax(results) <= results.newRegimeTax

\* The old regime is the cheaper one and is recommended.
C17_Witness ==
    /\ Returned
    /\ 0 < results.oldRegimeTax /\ results.oldRegimeTax < results.newRegimeTax
    /\ results.recommendedRegime = "old"
    /\ results.savings = results.newRegimeTax - results.oldRegimeTax

\* C18: for each numeric field of the profile, calculateTaxes on a profile
\* where that field is absent (undefined, null or NaN) returns the same
\* TaxResults as on the same profile with that field set to 0.
C18_AbsentIsZero ==
    Returned =>
        \A f \in NumericFields :
            inputs[f] \in AbsentValues =>
                results = calculateTaxes([inputs EXCEPT ![f] = 0])

\* rentPaid is NaN and every other field is present: the result is that of
\* rent 0 (no HRA exemption), not that of the full profile.
C18_Witness ==
    /\ Returned
    /\ inputs.rentPaid = NaN
    /\ \A f \in NumericFields \ {"rentPaid"} : inputs[f] \notin AbsentValues
    /\ locals.hraExemption = 0
    /\ results.oldRegimeTax > 0
    /\ results = calculateTaxes([inputs EXCEPT !.rentPaid = 0])
    /\ results # calculateTaxes([inputs EXCEPT !.rentPaid = 150000])

\* C19: in POST /api/advice with a valid inputs object, for every outcome of
\* the model calls (API key missing, every model throwing, or any model
\* returning any text) the response has success = true and results equal to
\* calculateTaxes(inputs), computed before the first model call; the model's
\* output only affects the advice and model fields.
C19_AdviceDegradesGracefully ==
    /\ (adv.pc = "calling" \/ adv.calls > 0) =>
          (pc = "returned" /\ results = calculateTaxes(adv.body.inputs))
    /\ (adv.pc = "responded" /\ adv.body.kind = "object") =>
          /\ adv.response.kind = "json"
          /\ adv.response.status = 200
          /\ adv.response.body.success
          /\ adv.response.body.results = calculateTaxes(adv.body.inputs)
          /\ [adv.response.body EXCEPT !.advice = NoAdvice, !.model = "none"] =
                [success |-> TRUE, model |-> "none", inputs |-> adv.body.inputs,
                 results |-> calculateTaxes(adv.body.inputs), advice |-> NoAdvice]

\* The key is set and each of the eight models threw: the response still
\* carries the computed taxes, with the default advice.
C19_Witness ==
    /\ adv.pc = "responded" /\ adv.body.kind = "object" /\ adv.apiKey
    /\ adv.calls = Len(preferredModels)
    /\ adv.response.body.success
    /\ adv.response.body.model = "none"
    /\ adv.response.body.advice = NoAdvice
    /\ adv.response.body.results.oldRegimeTax > 0
    /\ adv.response.body.results = results

\* One of the checks that precede the model loop fails.
ParseCheckFails ==
    \/ ~doc.apiKey
    \/ ~doc.formOk
    \/ ~doc.file.present
    \/ ~validateFile(doc.file).valid

\* C20: every execution of POST /api/parse-document ends by returning a JSON
\* response, never by throwing.  Each failure (API key missing, no file,
\* disallowed MIME type, file over 10MB, all models failing, any exception)
\* returns {success: false, error} with a 4xx/5xx status, and the model is
\* never called when the key, file, type or size check fails.
C20_StructuredFailures ==
    /\ doc.pc \in {"entry", "reading", "calling"} => ENABLED NextParse
    /\ doc.pc = "responded" =>
          /\ doc.response.kind = "json"
          /\ doc.response.status \in {200, 400, 401, 429, 500}
          /\ doc.response.body.success = (doc.response.status = 200)
          /\ (ParseCheckFails \/ doc.caught.thrown \/ ~doc.usedModel) =>
                /\ ~doc.response.body.success
                /\ DOMAIN doc.response.body = {"success", "error"}
                /\ doc.response.status \in {400, 401, 429, 500}
    /\ ParseCheckFails => (doc.calls = 0 /\ doc.pc \in {"entry", "responded"})

\* A valid file of exactly 10MB, the key set, and each of the eight models
\* threw: a 500 with an error, not an exception.
C20_Witness ==
    /\ doc.pc = "responded" /\ ~ParseCheckFails
    /\ doc.file.size = MAX_FILE_SIZE
    /\ doc.calls = Len(visionModelNames) /\ ~doc.usedModel
    /\ doc.response = jsonResponse(500,
          [success |-> FALSE,
           error |-> "All available Gemini models failed to process the document."])

\* The calls of a log went to the first Len(log) models of the list, in order.
InListOrder(log, models) ==
    /\ Len(log) <= Len(models)
    /\ \A k \in 1 .. Len(log) : log[k].name = models[k]

\* No call of the log but the last has an outcome in stop.
StopsAt(log, stop) == \A k \in 1 .. Len(log) - 1 : log[k].outcome \notin stop

\* The all-models-failed outcome of each handler.
AdviceFallback(r) == r.body.model = "none" /\ r.body.advice = NoAdvice
ParseAllFailed ==
    jsonResponse(500, [success |-> FALSE,
                       error |-> "All available Gemini models failed to process the document."])

\* C21 as stated: both handlers call the models in list order and stop at the
\* first model whose generateContent call succeeds (resolves), never calling a
\* later model after it; 'model' is that model's name; the fallback outcome is
\* used only when every generateContent call fails.
C21_StopAtFirstResolved ==
    /\ InListOrder(adv.log, preferredModels)
    /\ InListOrder(doc.log, visionModelNames)
    /\ StopsAt(adv.log, {"textThrew", "answered"})
    /\ StopsAt(doc.log, {"textThrew", "answered"})
    /\ (adv.pc = "responded" /\ adv.log # <<>>) =>
          IF adv.log[Len(adv.log)].outcome = "rejected"
          THEN Len(adv.log) = Len(preferredModels) /\ AdviceFallback(adv.response)
          ELSE adv.response.body.model = adv.log[Len(adv.log)].name
    /\ (doc.pc = "responded" /\ doc.log # <<>>) =>
          ((doc.response = ParseAllFailed) <=>
              (Len(doc.log) = Len(visionModelNames) /\ doc.log[Len(doc.log)].outcome = "rejected"))

\* C21 (amended): both handlers call the models in list order.  The advice
\* handler stops at the first model that answers (generateContent resolves and
\* response.text() returns), a model whose text() throws counting as failed;
\* the parse-document handler stops at the first model whose generateContent
\* resolves.  Neither calls a later model after that; a success response
\* names that model; the fallback outcome ('none' with the default advice,
\* or the 500 'All available Gemini models failed') is used exactly when every
\* model failed in that sense.
C21_FallbackOrder ==
    /\ InListOrder(adv.log, preferredModels)
    /\ InListOrder(doc.log, visionModelNames)
    /\ StopsAt(adv.log, {"answered"})
    /\ StopsAt(doc.log, {"textThrew", "answered"})
    /\ (adv.pc = "calling" => adv.next = Len(adv.log) + 1)
    /\ (doc.pc = "calling" => doc.next = Len(doc.log) + 1)
    /\ (adv.pc = "responded" /\ adv.log # <<>>) =>
          IF adv.log[Len(adv.log)].outcome = "answered"
          THEN adv.response.body.model = adv.log[Len(adv.log)].name
          ELSE Len(adv.log) = Len(preferredModels) /\ AdviceFallback(adv.response)
    /\ (doc.pc = "responded" /\ doc.log # <<>>) =>
          /\ (doc.response = ParseAllFailed) <=>
                (Len(doc.log) = Len(visionModelNames) /\ doc.log[Len(doc.log)].outcome = "rejected")
          /\ doc.response.body.success <=> doc.log[Len(doc.log)].outcome = "answered"
          /\ doc.response.body.success => doc.response.body.model = doc.log[Len(doc.log)].name

\* The first model threw, the second resolved with a text that could not be
\* read, the third answered and is the one named.
C21_Witness ==
    /\ adv.pc = "responded"
    /\ Len(adv.log) = 3
    /\ adv.log[1].outcome = "rejected"
    /\ adv.log[2].outcome = "textThrew"
    /\ adv.log[3] = Call("gemini-2.5-flash", "answered")
    /\ adv.response.body.model = "gemini-2.5-flash"

\* C22: POST /api/advice whose body has no inputs object returns the 400
\* error {success: false} before calculateTaxes or any model is called; every
\* response with success = true carries a complete results object with
\* oldRegimeTax, newRegimeTax, savings and recommendedRegime all set.
C22_NoPartialSuccess ==
    /\ adv.body.kind \in {"missing", "null", "notObject"} =>
          /\ pc = "idle" /\ results = NoResults
          /\ adv.log = <<>> /\ adv.calls = 0
          /\ adv.pc = "responded" =>
                /\ adv.response.status = 400
                /\ ~adv.response.body.success
                /\ DOMAIN adv.response.body = {"success", "error"}
    /\ (adv.pc = "responded" /\ adv.response.body.success) =>
          /\ pc = "returned"
          /\ DOMAIN adv.response.body.results =
                {"oldRegimeTax", "newRegimeTax", "savings", "recommendedRegime"}
          /\ adv.response.body.results.oldRegimeTax \in Nat
          /\ adv.response.body.results.newRegimeTax \in Nat
          /\ adv.response.body.results.savings \in Nat
          /\ adv.response.body.results.recommendedRegime \in {"old", "new"}

\* inputs is null, which typeof calls an object: the 400 is returned and
\* nothing was computed.
C22_Witness ==
    /\ adv.pc = "responded" /\ adv.body.kind = "null" /\ adv.apiKey
    /\ adv.response.status = 400 /\ ~adv.response.body.success
    /\ pc = "idle" /\ adv.log = <<>>

\* The cleaning the claim describes: 'Rs' (with the point of the abbreviation,
\* if any) is removed, then the rupee sign, commas and whitespace; every other
\* point stays.
RECURSIVE RemoveRs(_)
RemoveRs(str) ==
    IF str = <<>> THEN <<>>
    ELSE IF Len(str) >= 2 /\ str[1] \in {"R", "r"} /\ str[2] \in {"S", "s"}
    THEN IF Len(str) >= 3 /\ str[3] = "."
         THEN RemoveRs(SubSeq(str, 4, Len(str)))
         ELSE RemoveRs(SubSeq(str, 3, Len(str)))
    ELSE <<Head(str)>> \o RemoveRs(Tail(str))

ClaimedClean(str) == RemoveAll(RemoveRs(str), {"INR", ",", " "})

\* A string written with digits, signs, the point and the removed marks only.
IsAmountString(str) ==
    \A k \in 1 .. Len(ClaimedClean(str)) :
        IsDigit(ClaimedClean(str)[k]) \/ ClaimedClean(str)[k] \in {".", "-"}

\* C23: sanitizeNumber on a string amount removes the rupee sign, commas, 'Rs'
\* and whitespace but keeps the decimal point: the result is the rounded
\* numeric value ('1,234.56' gives 1235, 'Rs. 50000.40' gives 50000), not the
\* integer with the fraction digits appended.
C23_KeepsDecimalPoint ==
    (parser.pc = "done" /\ parser.value.type = "string" /\ parser.value.str # <<>>
        /\ IsAmountString(parser.value.str)) =>
        parser.number =
            (LET parsed == parseFloat(ClaimedClean(parser.value.str))
             IN  IF parsed.isNaN THEN NumNull ELSE Num(MathRound(parsed)))

\* The texts the claim calls parseable: one JSON document, optionally after
\* a fence (with or without the tag json) and optionally before a closing
\* fence, with whitespace
\* anywhere between.
ClaimedParseable(tokens) ==
    \E before \in {<<>>, <<"FENCE">>, <<"FENCE_JSON">>}, after \in {<<>>, <<"FENCE">>} :
        RemoveAll(tokens, {" "}) = before \o <<"J">> \o after

\* The value the claim reads a member from: the nested or the flat form.
ClaimedValue(member) == member.v

\* C24: parseGeminiResponse returns a record with all 14 fields for every
\* response text.  If the text, after stripping an optional fence, is not
\* parseable JSON or not an object, every field is null; otherwise each field
\* is taken from the nested {value, evidence} form or the flat form and is
\* null when missing, null or not sanitizable.
C24_ParseTotal ==
    parser.pc = "parsed" =>
        /\ DOMAIN parser.data = DataFields
        /\ Cardinality(DataFields) = 14
        /\ \A f \in DataFields : parser.data[f].isNull \in BOOLEAN
        /\ (~ClaimedParseable(parser.responseText) \/ parser.document.type # "object") =>
              \A f \in DataFields : parser.data[f].isNull
        /\ (ClaimedParseable(parser.responseText) /\ parser.document.type = "object") =>
              \A f \in DataFields :
                  LET v == ClaimedValue(parser.document.members[f])
                  IN  /\ v.type \in {"undefined", "null"} => parser.data[f].isNull
                      /\ parser.data[f] =
                            (IF f \in NumberFields THEN sanitizeNumber(v) ELSE sanitizeString(v))

\* A fenced object with a nested amount 1234.56 and a flat, padded PAN:
\* 1235 and the trimmed string come back, the other twelve fields are null.
C24_Witness ==
    /\ parser.pc = "parsed"
    /\ parser.responseText = <<" ", "FENCE_JSON", " ", "J", " ", "FENCE", " ">>
    /\ parser.document.members["grossSalary"] =
          Member(TRUE, VNumber(Float(FALSE, FALSE, 1234, <<"5", "6">>)))
    /\ parser.document.members["pan"] = Member(FALSE, VString(<<" ", "x", " ">>))
    /\ parser.data["grossSalary"] = Num(1235)
    /\ parser.data["pan"] = Str(<<"x">>)
    /\ \A f \in DataFields \ {"grossSalary", "pan"} : parser.data[f].isNull

\* C25: with all other fields fixed, oldRegimeTax and newRegimeTax are
\* non-decreasing functions of grossSalary, also across the rebate thresholds
\* (500,000 / 700,000) and every surcharge band edge.
C25_MonotoneInIncome ==
    Returned =>
        \A g \in MonotoneGross(inputs) :
            g <= inputs.grossSalary =>
                /\ calculateOldRegimeTax([inputs EXCEPT !.grossSalary = g]) <= results.oldRegimeTax
                /\ calculateNewRegimeTax([inputs EXCEPT !.grossSalary = g]) <= results.newRegimeTax

\* One rupee over the first surcharge edge with full deductions: both taxes
\* are higher than at the edge, the old one by more than 100,000.
C25_Witness ==
    /\ Returned
    /\ inputs.deduction80c > 0
    /\ locals.oldTaxableIncome = Tenths(5000001)
    /\ locals.newTaxableIncome > Tenths(5000001)
    /\ results.oldRegimeTax >
          calculateOldRegimeTax([inputs EXCEPT !.grossSalary = @ - 1]) + 100000
    /\ results.newRegimeTax >=
          calculateNewRegimeTax([inputs EXCEPT !.grossSalary = @ - 1])

\* C26: for profiles identical except for the age bracket,
\* oldRegimeTax(above80) <= oldRegimeTax(60to80) <= oldRegimeTax(below60).
C26_AgeOrdering ==
    Returned =>
        /\ calculateOldRegimeTax([inputs EXCEPT !.age = "above80"]) <=
              calculateOldRegimeTax([inputs EXCEPT !.age = "60to80"])
        /\ calculateOldRegimeTax([inputs EXCEPT !.age = "60to80"]) <=
              calculateOldRegimeTax([inputs EXCEPT !.age = "below60"])

\* The three brackets pay three different taxes on the same profile.
C26_Witness ==
    /\ Returned /\ inputs.age = "60to80" /\ inputs.deduction80d > CAP_80D_BELOW60
    /\ calculateOldRegimeTax([inputs EXCEPT !.age = "above80"]) < results.oldRegimeTax
    /\ results.oldRegimeTax < calculateOldRegimeTax([inputs EXCEPT !.age = "below60"])

\* The amounts a raw deduction d is raised to.
Raised(d) == {d + 1, d + 20000, d + 1000000}

\* C27: with all other fields fixed, increasing any one of the five raw
\* deduction amounts never increases oldRegimeTax and never changes
\* newRegimeTax.
C27_DeductionsNeverHurt ==
    Returned =>
        \A f \in DeductionFields : \A d \in Raised(inputs[f]) :
            /\ calculateOldRegimeTax([inputs EXCEPT ![f] = d]) <= results.oldRegimeTax
            /\ calculateNewRegimeTax([inputs EXCEPT ![f] = d]) = results.newRegimeTax

\* Raising 80C from 0 lowers the old-regime tax and leaves the new one.
C27_Witness ==
    /\ Returned /\ inputs.deduction80c = 0 /\ inputs.npsContribution = CAP_NPS_80CCD_1B
    /\ calculateOldRegimeTax([inputs EXCEPT !.deduction80c = 20000]) < results.oldRegimeTax
    /\ calculateNewRegimeTax([inputs EXCEPT !.deduction80c = 20000]) = results.newRegimeTax
    /\ results.newRegimeTax > 0

\* The caps a profile of age a gets for 80D and for savings interest.
Effective80dCap(a) == capped80d([ZeroProfile EXCEPT !.age = a, !.deduction80d = 1000000])
EffectiveSavingsCap(a) ==
    cappedSavingsInterest([ZeroProfile EXCEPT !.age = a, !.deduction80tta = 1000000])

\* C28: a profile whose age is none of 'below60', '60to80', 'above80' is
\* treated as one single bracket throughout calculateOldRegimeTax: its
\* zero-rate threshold, its 80D cap and its savings-interest cap are those of
\* one and the same of the three brackets.
C28_UnknownAgeOneBracket ==
    (Returned /\ inputs.age \notin AgeBrackets) =>
        \E b \in AgeBrackets :
            /\ getOldRegimeBasicExemption(inputs.age) = getOldRegimeBasicExemption(b)
            /\ Effective80dCap(inputs.age) = Effective80dCap(b)
            /\ EffectiveSavingsCap(inputs.age) = EffectiveSavingsCap(b)

\* A step that is a drop of a file the type or size check rejects.
RejectedDrop == page'.drops # page.drops /\ page'.lastDrop \in {"badType", "tooLarge"}

\* C29: in the page every form submit eventually sets loading back to false
\* and every started upload eventually sets isUploading back to false,
\* whether the request succeeds, answers success = false or throws; a file
\* rejected by the type or size check never sets isUploading and never sends
\* a request; and while isUploading is true no second upload starts.
C29_BusyFlagsClear ==
    /\ page.loading ~> ~page.loading
    /\ page.isUploading ~> ~page.isUploading
    /\ [][RejectedDrop => (~page'.isUploading /\ page'.sent = page.sent)]_vars
    /\ [][page.isUploading => page'.sent = page.sent]_vars

\* An upload was started and has ended in an error, a submit has ended
\* without results, and both flags are clear again.
C29_Witness ==
    /\ page.sent = 1 /\ page.lastDrop = "accepted" /\ page.uploadStatus = "error"
    /\ page.submits = 1 /\ ~page.hasResults
    /\ page.upload = "idle" /\ page.submit = "idle"
    /\ ~page.isUploading /\ ~page.loading

\* The timer of the latest extraction is still pending.
LatestTimerPending == \E k \in 1..Len(page.timers) : page.timers[k] = page.extractions

\* C30: after handleDataExtracted the fields it recorded stay highlighted
\* until the timer of that same extraction fires: the timer of an earlier
\* extraction never clears the highlights of a later one.
C30_HighlightLifetime ==
    LatestTimerPending => page.autoFilledFields = page.recorded

====
